---- MODULE Spec2Model ----
(***************************************************************************)
(* Message broker and agent loop of the collaborative editing system.      *)
(*                                                                         *)
(*   core/agent_base.py      AgentMessage, Agent                           *)
(*   core/message_broker.py  MessageBroker                                 *)
(*                                                                         *)
(* Everything runs on one asyncio event loop, so a coroutine is atomic     *)
(* between two suspension points.  asyncio.Queue() is unbounded, hence     *)
(* `await queue.put(m)` never suspends and route_message suspends only in  *)
(* _broadcast, at `await asyncio.gather(...)`.                             *)
(***************************************************************************)
EXTENDS Naturals, Integers, Sequences, FiniteSets, TLC

\* ------------------------------------------------------------------ bounds
\* number of messages the environment constructs (each gets a fresh id)
MaxMsgs == 2

\* number of events published
MaxEvents == 3

\* number of subscriptions alive at a time
MaxSubs == 3

\* EventBus._max_history, scaled down from 1000
MaxHistory == 2

\* unsubscribe closures a caller keeps
MaxHandles == 3

\* ------------------------------------------------------------- the agents
\* Agent objects.  o1 and o3 are two objects constructed with the same
\* agent_id; o2 has its own id.
Objs == {"o1", "o2", "o3"}
Ids == {"a", "b"}
NoObj == "none"

\* Agent.agent_id
AgentId(o) == IF o = "o2" THEN "b" ELSE "a"

\* Agent.get_capabilities()
Capabilities(o) == IF o = "o3" THEN {} ELSE {"PING"}

\* Agent._handlers: the agents register one handler per capability
Handlers(o) == Capabilities(o)

\* Agent objects whose receive_message (an overridable coroutine) raises
Flaky == {"o2"}

\* MessageType
Types == {"PING", "RESPONSE", "ERROR"}

\* AgentMessage.correlation_id = None
NoCorr == 0

Senders == {"a", "api"}
Recipients == {"a", "b", "broadcast", "nobody"}

NoMsg == [id |-> -1, type |-> "none", sender |-> "", recipient |-> "",
          corr |-> NoCorr, payload |-> ""]

\* ---------------------------------------------------------------- state
VARIABLES
    agents,       \* MessageBroker._agents: agent id -> agent object
    subscribers,  \* MessageBroker._subscribers: type -> list of agent ids
    pending,      \* keys of MessageBroker._pending_requests
    fut,          \* the future stored under each key
    gathers,      \* asyncio.gather calls of _broadcast not yet completed
    queue,        \* Agent._message_queue
    running,      \* Agent._running
    tasks,        \* live _process_messages tasks of the agent
    cur,          \* messages whose handler is in progress
    injected,     \* Agent._message_broker is set
    req,          \* the request() call made with message id
    nextId,       \* next message id handed out (uuid4)
    hooks,        \* on_start calls of the agent not yet followed by on_stop
    sent,         \* how the last direct call of Agent.send_message ended
    orig,         \* the message create_response is called on
    resp,         \* the message create_response returned
    typeSubs,     \* EventBus._subscribers: event type -> list of callbacks
    docSubs,      \* EventBus._document_subscribers: document -> callbacks
    globalSubs,   \* EventBus._global_subscribers
    history,      \* EventBus._event_history
    pub,          \* the publish() call in progress
    nPub,         \* number of events published so far
    returned,     \* the list the last get_history call returned
    handles,      \* the unsubscribe closures a caller kept, in order of creation
    connections,  \* WebSocketManager._connections: user id -> connection
    document_rooms, \* WebSocketManager._document_rooms: keys in insertion
                  \* order, and the member set of every key
    client,       \* per connection: the state of the socket and its peer
    wtasks,       \* the asyncio tasks of the manager: stack of coroutine
                  \* frames, children awaited, awaiting task, exception
    outbox,       \* per connection: the payloads send_json has written
    nMsgs,        \* number of client messages received so far
    nBridge,      \* number of events handed to _handle_event so far
    warned,       \* ids of the messages the loops logged "No handler" for
    database,     \* the row of the document and the rows of its versions
    docAgent,     \* DocumentEditingAgent: queue, message in work, the
                  \* Document object its handler loaded
    verAgent,     \* VersionControlAgent: queue, message in work, where its
                  \* handler stands, the objects it loaded
    replies,      \* the response returned for each message
    published,    \* the events the two agents published
    nUpdates,     \* number of DOC_UPDATE messages clients sent so far
    nVersionOps,  \* number of messages clients sent to the version agent
    view          \* per user: the document as it last loaded it

busVars == <<typeSubs, docSubs, globalSubs, history, pub, nPub, returned>>
wsVars == <<connections, document_rooms, client, wtasks, outbox, nMsgs,
           nBridge>>
docVars == <<database, docAgent, verAgent, replies, published, nUpdates,
            nVersionOps, view>>
extVars == <<sent, orig, resp, busVars, handles, wsVars, warned, docVars>>

vars == <<agents, subscribers, pending, fut, gathers, queue, running,
          tasks, cur, injected, req, nextId, hooks, extVars>>

brokerVars == <<agents, subscribers>>
agentVars == <<running, tasks, cur, injected>>

\* A call of request(): where it stands (pc), what it returned (result)
\* and through which return statement (how); seen and late record the
\* first correlated reply routed before, and after, its timeout fired.
NoFrame == [pc |-> "none", result |-> NoMsg, how |-> "", seen |-> NoMsg,
            late |-> NoMsg]
NoFut == [state |-> "none", result |-> NoMsg]

\* --------------------------------------------------------- the event bus
\* EventType, Event.document_id (NoDoc is None) and the callbacks
EvTypes == {"t1", "t2"}
Docs == {"d1"}
NoDoc == "none"
Cbs == {"c1", "c2"}

\* an Event: the n-th one published
NoEvent == [type |-> "none", doc |-> NoDoc, n |-> 0]

\* The latest call of publish(): the event, callbacks_to_call not yet
\* invoked (todo), the callbacks invoked so far, each with whether it
\* raised, and whether the call is running, has returned or has raised.
NoPub == [event |-> NoEvent, todo |-> <<>>, invoked |-> <<>>, pc |-> "none"]

\* EventBus.__init__, and no call of send_message or create_response yet
\* --------------------------------------------------- the WebSocket manager
\* client messages received by all endpoints together
MaxWsMsgs == 2

\* events handed to the manager by the event bus
MaxBridge == 1

\* asyncio tasks alive at one time
MaxTasks == 12

\* user ids; user_id = None
Users == {"u", "v"}
NoUser == "none"

\* WebSocket objects, one per call of websocket_route, and the subject of
\* the token of each where every user has one connection
Conns == {"k1", "k2"}
NoConn == "none"
Sub(k) == IF k = "k1" THEN "u" ELSE "v"

\* document ids that name rooms
Rooms == {"d1", "d2"}

\* the task running websocket_endpoint for connection k; the other task ids
\* are taken by the tasks gather creates and by the tasks publishing events
TaskIds == 1..MaxTasks
EndpointTask(k) == IF k = "k1" THEN 1 ELSE 2

\* the user_id the endpoint of connection k was called with
UserOf(k) == wtasks[EndpointTask(k)].stack[1].user
Pool == TaskIds \ {EndpointTask(k) : k \in Conns}

\* a JSON payload: its type, the user and document it is about and its
\* active_users list
Payload(type, user, doc, users) ==
    [type |-> type, user |-> user, doc |-> doc, users |-> users]
NoPayload == Payload("none", NoUser, NoDoc, {})

\* a coroutine frame: the coroutine f, the point pc it has reached and its
\* locals
Frame(f, pc, user, doc, keys, msg, excl) ==
    [f |-> f, pc |-> pc, user |-> user, doc |-> doc, keys |-> keys,
     msg |-> msg, excl |-> excl]

\* no task
NoTask == [stack |-> <<>>, wait |-> 0, parent |-> 0, exc |-> FALSE]

\* __init__, lines 82-88, and one endpoint per connection about to accept
InitWs ==
    /\ connections = [x \in Users |-> NoConn]
    /\ document_rooms = [keys |-> <<>>, members |-> [d \in Rooms |-> {}]]
    /\ client = [k \in Conns |-> "open"]
    /\ wtasks = [t \in TaskIds |->
                   IF \E k \in Conns : EndpointTask(k) = t
                   THEN [NoTask EXCEPT !.stack =
                            <<Frame("endpoint", "accept",
                                    Sub(CHOOSE k \in Conns :
                                            EndpointTask(k) = t),
                                    NoDoc, <<>>, NoPayload, NoUser)>>]
                   ELSE NoTask]
    /\ outbox = [k \in Conns |-> {}]
    /\ nMsgs = 0
    /\ nBridge = 0

\* ------------------------------------------------ documents and versions
\* DOC_UPDATE messages clients send, and messages they send to the
\* version agent
MaxUpdates == 2
MaxVersionOps == 1

\* contents and titles; content = None, title = None
Contents == {"c0", "c1"}
NoContent == "none"
NoTitle == "none"

\* expected_version = None
NoVersion == 0

\* a user who may not edit the document, and the senders of messages
Viewer == "w"
Clients == Users \cup {Viewer}

\* ids of the messages of clients: the updates, then the others
OpIds == 1..(MaxUpdates + MaxVersionOps)

\* the columns of a Document row the handlers read and write
Document(content, title, edit_version, last_edited_by) ==
    [content |-> content, title |-> title, edit_version |-> edit_version,
     last_edited_by |-> last_edited_by]
NoDocument == Document(NoContent, NoTitle, 0, NoUser)

\* a Version row; reverted is the version number its change_summary names
Version(number, content, title, by, reverted) ==
    [number |-> number, content |-> content, title |-> title, by |-> by,
     reverted |-> reverted]

\* a message to one of the two agents: its payload; base is the content
\* the sender had loaded when it took expected_version from its view
NoOp == [id |-> 0, type |-> "none", user |-> NoUser, content |-> NoContent,
         title |-> NoTitle, expected |-> NoVersion, base |-> NoContent,
         create_version |-> FALSE, number |-> 0, internal |-> FALSE]

\* a response: its payload and the message it is correlated to
NoReply == [kind |-> "none", expected |-> NoVersion, current |-> 0,
            content |-> NoContent, title |-> NoTitle, editor |-> NoUser,
            changes |-> {}, number |-> 0, request |-> NoOp]

\* _handle_create, lines 165-205: the document as created by u, its users
\* having loaded it, and the VERSION_CREATE message for its first version
\* on its way
InitDocs ==
    /\ database = [doc |-> Document("c0", "t0", 1, NoUser),
                   versions |-> <<>>]
    /\ docAgent = [queue |-> <<>>, cur |-> NoOp, document |-> NoDocument]
    /\ verAgent = [queue |-> <<[NoOp EXCEPT !.type = "VERSION_CREATE",
                                            !.user = "u",
                                            !.content = "c0",
                                            !.title = "t0",
                                            !.internal = TRUE]>>,
                   cur |-> NoOp, pc |-> "idle", document |-> NoDocument]
    /\ replies = [i \in OpIds |-> NoReply]
    /\ published = {}
    /\ nUpdates = 0
    /\ nVersionOps = 0
    /\ view = [x \in Users |-> Document("c0", "t0", 1, NoUser)]

InitOuter ==
    /\ sent = "none"
    /\ orig = NoMsg
    /\ resp = NoMsg
    /\ typeSubs = [t \in EvTypes |-> <<>>]
    /\ docSubs = [d \in Docs |-> {}]
    /\ globalSubs = <<>>
    /\ history = <<>>
    /\ pub = NoPub
    /\ nPub = 0
    /\ returned = <<>>
    /\ handles = <<>>
    /\ warned = {}
    /\ InitDocs

InitExt == InitOuter /\ InitWs

Init ==
    /\ agents = [i \in Ids |-> NoObj]
    /\ subscribers = [t \in Types |-> <<>>]
    /\ pending = {}
    /\ fut = [i \in 1..MaxMsgs |-> NoFut]
    /\ gathers = <<>>
    /\ queue = [o \in Objs |-> <<>>]
    /\ running = [o \in Objs |-> FALSE]
    /\ tasks = [o \in Objs |-> 0]
    /\ cur = [o \in Objs |-> <<>>]
    /\ injected = [o \in Objs |-> FALSE]
    /\ req = [i \in 1..MaxMsgs |-> NoFrame]
    /\ nextId = 1
    /\ hooks = [o \in Objs |-> 0]
    /\ InitExt

\* ------------------------------------------------------------- messages
\* the reply keeps the sender and the recipient of the original
CreateResponse_NoSwap(m, payload, success) ==
    [id |-> 0,
     type |-> IF success THEN "RESPONSE" ELSE "ERROR",
     sender |-> m.sender,
     recipient |-> m.recipient,
     corr |-> m.id,
     payload |-> payload]

\* AgentMessage.create_response: sender and recipient swapped, correlated
\* to the original, RESPONSE on success and ERROR otherwise.  The reply
\* gets a fresh uuid, which is never the key of a pending request: id 0.
CreateResponse(m, payload, success) ==
    [id |-> 0,
     type |-> IF success THEN "RESPONSE" ELSE "ERROR",
     sender |-> m.recipient,
     recipient |-> m.sender,
     corr |-> m.id,
     payload |-> payload]

\* Operation messages constructed with id i: they carry no correlation id
Requests(i) ==
    { [id |-> i, type |-> "PING", sender |-> s, recipient |-> r,
       corr |-> NoCorr, payload |-> "req"] :
        s \in Senders, r \in Recipients }

\* Replies constructed with id i outside the agents, correlated to an
\* earlier message
Replies(i) ==
    { [id |-> i, type |-> t, sender |-> "api", recipient |-> r, corr |-> c,
       payload |-> "reply"] :
        t \in {"RESPONSE", "ERROR"}, r \in Recipients, c \in 1..(i - 1) }

EnvMsgs(i) == Requests(i) \cup Replies(i)

\* ------------------------------------------------------- MessageBroker
Registered(i) == i \in Ids /\ agents[i] # NoObj

IsReply(m) == m.type \in {"RESPONSE", "ERROR"}

\* route_message without the correlation step: a reply is routed like any
\* other message
RouteRule_NoCorrelation(m, P) ==
    IF m.recipient = "broadcast" THEN "broadcast"
    ELSE IF Registered(m.recipient) THEN "direct"
    ELSE IF /\ subscribers[m.type] # <<>>
            /\ Registered(Head(subscribers[m.type])) THEN "capability"
    ELSE "drop"

\* a reply that matches no pending request is thrown away
RouteRule_DropLate(m, P) ==
    IF IsReply(m) /\ m.corr # NoCorr /\ m.corr \in P THEN "resolve"
    ELSE IF IsReply(m) THEN "drop"
    ELSE IF m.recipient = "broadcast" THEN "broadcast"
    ELSE IF Registered(m.recipient) THEN "direct"
    ELSE IF /\ subscribers[m.type] # <<>>
            /\ Registered(Head(subscribers[m.type])) THEN "capability"
    ELSE "drop"

\* the capability index is consulted before the recipient
RouteRule_CapabilityFirst(m, P) ==
    IF IsReply(m) /\ m.corr # NoCorr /\ m.corr \in P THEN "resolve"
    ELSE IF m.recipient = "broadcast" THEN "broadcast"
    ELSE IF /\ subscribers[m.type] # <<>>
            /\ Registered(Head(subscribers[m.type])) THEN "capability"
    ELSE IF Registered(m.recipient) THEN "direct"
    ELSE "drop"

\* a message no rule matches is broadcast
RouteRule_BroadcastDefault(m, P) ==
    IF IsReply(m) /\ m.corr # NoCorr /\ m.corr \in P THEN "resolve"
    ELSE IF m.recipient = "broadcast" THEN "broadcast"
    ELSE IF Registered(m.recipient) THEN "direct"
    ELSE IF /\ subscribers[m.type] # <<>>
            /\ Registered(Head(subscribers[m.type])) THEN "capability"
    ELSE "broadcast"

\* route_message, lines 137-164: the branch that handles m when the keys
\* of _pending_requests are P.  A type whose subscriber list is missing
\* and one whose list is empty both fall through to the warning.
RouteRule(m, P) ==
    IF IsReply(m) /\ m.corr # NoCorr /\ m.corr \in P THEN "resolve"
    ELSE IF m.recipient = "broadcast" THEN "broadcast"
    ELSE IF Registered(m.recipient) THEN "direct"
    ELSE IF /\ subscribers[m.type] # <<>>
            /\ Registered(Head(subscribers[m.type])) THEN "capability"
    ELSE "drop"

\* the broadcast does not leave out the sender
RouteTargets_All(m, P) ==
    LET rule == RouteRule(m, P) IN
    IF rule = "broadcast"
        THEN {agents[i] : i \in {j \in Ids : Registered(j)}}
    ELSE IF rule = "direct" THEN {agents[m.recipient]}
    ELSE IF rule = "capability" THEN {agents[Head(subscribers[m.type])]}
    ELSE {}

\* the agent objects whose receive_message the branch calls
RouteTargets(m, P) ==
    LET rule == RouteRule(m, P) IN
    IF rule = "broadcast"
        THEN {agents[i] : i \in {j \in Ids : Registered(j) /\ j # m.sender}}
    ELSE IF rule = "direct" THEN {agents[m.recipient]}
    ELSE IF rule = "capability" THEN {agents[Head(subscribers[m.type])]}
    ELSE {}

\* Agent.receive_message on every agent of T: put on the queue, in order
ReceiveMessage(Q, T, m) ==
    [o \in Objs |-> IF o \in T
                    THEN Append(Q[o], m)
                    ELSE Q[o]]

\* a reply resolves the oldest pending request instead of its own
Key_Oldest(m, P) == CHOOSE k \in P : \A j \in P : k <= j

\* line 139: the key popped from _pending_requests for the reply m
Key(m, P) == m.corr

\* the resolved entry is left in the map
Resolved_Kept(P, c) == P

\* line 139: _pending_requests.pop(correlation_id)
Resolved(P, c) == P \ {c}

\* the entry of a request that timed out or failed is left in the map
Popped_Kept(P, i) == P

\* lines 226 and 230: _pending_requests.pop(message.id, None)
Popped(P, i) == P \ {i}

\* set_result is called without looking at future.done()
Route_Unguarded(m, P, F, bad) ==
    LET rule == RouteRule(m, P)
        T == RouteTargets(m, P)
        one == rule \in {"direct", "capability"}
    IN [rule |-> rule,
        called |-> T,
        failed |-> IF one THEN T \cap bad ELSE {},
        raised |-> one /\ T \cap bad # {},
        spawn |-> rule = "broadcast" /\ T # {},
        pending |-> IF rule = "resolve" THEN Resolved(P, Key(m, P)) ELSE P,
        fut |-> IF rule = "resolve"
                THEN [F EXCEPT ![Key(m, P)] =
                         [state |-> "done", result |-> m]]
                ELSE F,
        queue |-> ReceiveMessage(queue, IF one THEN T \ bad ELSE {}, m)]

\* route_message(m) with pending keys P and futures F; bad are the agents
\* whose receive_message raises during this call.  The result holds the
\* new values of the state the call writes.
Route(m, P, F, bad) ==
    LET rule == RouteRule(m, P)
        T == RouteTargets(m, P)
        one == rule \in {"direct", "capability"}
        got == IF one THEN T \ bad ELSE {}
    IN [rule |-> rule,
        called |-> T,
        failed |-> IF one THEN T \cap bad ELSE {},
        raised |-> one /\ T \cap bad # {},
        spawn |-> rule = "broadcast" /\ T # {},
        pending |-> IF rule = "resolve" THEN Resolved(P, Key(m, P)) ELSE P,
        fut |-> IF rule = "resolve" /\ F[Key(m, P)].state = "pending"
                THEN [F EXCEPT ![Key(m, P)] =
                         [state |-> "done", result |-> m]]
                ELSE F,
        queue |-> ReceiveMessage(queue, got, m)]

\* bookkeeping of seen and late when m is routed
Seen(m, frames) ==
    [i \in 1..MaxMsgs |->
        IF /\ IsReply(m) /\ m.corr = i
           /\ frames[i].pc \in {"routing", "waiting"}
           /\ frames[i].seen = NoMsg
        THEN [frames[i] EXCEPT !.seen = m]
        ELSE IF /\ IsReply(m) /\ m.corr = i
                /\ frames[i].pc = "timedout"
                /\ frames[i].late = NoMsg
        THEN [frames[i] EXCEPT !.late = m]
        ELSE frames[i]]

\* the agent id is indexed again at every registration
Register_Reindex(o) ==
    /\ \A t \in Types : Len(subscribers[t]) < 3
    /\ agents' = [agents EXCEPT ![AgentId(o)] = o]
    /\ injected' = [injected EXCEPT ![o] = TRUE]
    /\ subscribers' =
         [t \in Types |->
            IF t \in Capabilities(o)
            THEN Append(subscribers[t], AgentId(o))
            ELSE subscribers[t]]
    /\ UNCHANGED <<pending, fut, gathers, queue, running, tasks, cur,
                   req, nextId>>
    /\ UNCHANGED <<hooks, extVars>>

\* register_agent
Register(o) ==
    /\ agents' = [agents EXCEPT ![AgentId(o)] = o]
    /\ injected' = [injected EXCEPT ![o] = TRUE]
    /\ subscribers' =
         [t \in Types |->
            IF t \in Capabilities(o)
               /\ \A k \in 1..Len(subscribers[t]) :
                      subscribers[t][k] # AgentId(o)
            THEN Append(subscribers[t], AgentId(o))
            ELSE subscribers[t]]
    /\ UNCHANGED <<pending, fut, gathers, queue, running, tasks, cur,
                   req, nextId>>
    /\ UNCHANGED <<hooks, extVars>>

\* unregister_agent
Unregister(i) ==
    /\ Registered(i)
    /\ subscribers' =
         [t \in Types |->
            IF t \in Capabilities(agents[i])
            THEN SelectSeq(subscribers[t], LAMBDA a : a # i)
            ELSE subscribers[t]]
    /\ agents' = [agents EXCEPT ![i] = NoObj]
    /\ UNCHANGED <<pending, fut, gathers, queue, running, tasks, cur,
                   injected, req, nextId>>
    /\ UNCHANGED <<hooks, extVars>>

\* route_message called from outside request() and outside the agent
\* loops (a fire-and-forget send)
Send(m, bad) ==
    LET R == Route(m, pending, fut, bad) IN
    /\ nextId <= MaxMsgs
    /\ m \in EnvMsgs(nextId)
    /\ nextId' = nextId + 1
    /\ pending' = R.pending
    /\ fut' = R.fut
    /\ queue' = R.queue
    /\ gathers' = IF R.spawn
                  THEN Append(gathers, [msg |-> m, targets |-> R.called,
                                        caller |-> 0])
                  ELSE gathers
    /\ req' = Seen(m, req)
    /\ UNCHANGED <<brokerVars, agentVars>>
    /\ UNCHANGED <<hooks, extVars>>

\* request(m, timeout) up to its first suspension point
RequestStart(m, bad) ==
    LET P == pending \cup {m.id}
        F == [fut EXCEPT ![m.id] = [state |-> "pending", result |-> NoMsg]]
        R == Route(m, P, F, bad)
    IN
    /\ nextId <= MaxMsgs
    /\ m \in Requests(nextId)
    /\ nextId' = nextId + 1
    /\ pending' = IF R.raised THEN Popped(R.pending, m.id) ELSE R.pending
    /\ fut' = R.fut
    /\ queue' = R.queue
    /\ gathers' = IF R.spawn
                  THEN Append(gathers, [msg |-> m, targets |-> R.called,
                                        caller |-> m.id])
                  ELSE gathers
    /\ req' = [Seen(m, req) EXCEPT ![m.id] =
                 IF R.raised
                 THEN [NoFrame EXCEPT !.pc = "done", !.how = "error"]
                 ELSE [NoFrame EXCEPT
                         !.pc = IF R.spawn THEN "routing" ELSE "waiting"]]
    /\ UNCHANGED <<brokerVars, agentVars>>
    /\ UNCHANGED <<hooks, extVars>>

\* _broadcast: the receive_message tasks of the oldest gather run, one
\* after the other, and the caller of route_message resumes.  With
\* return_exceptions=True a task that raises is only collected.
GatherComplete(bad) ==
    /\ gathers # <<>>
    /\ LET g == Head(gathers)
           got == g.targets \ bad
       IN /\ bad \subseteq g.targets \cap Flaky
          /\ queue' = ReceiveMessage(queue, got, g.msg)
          /\ req' = IF g.caller # 0
                    THEN [req EXCEPT ![g.caller].pc = "waiting"]
                    ELSE req
    /\ gathers' = Tail(gathers)
    /\ UNCHANGED <<brokerVars, agentVars, pending, fut, nextId>>
    /\ UNCHANGED <<hooks, extVars>>

\* asyncio.wait_for(future, timeout): the timeout fires while the future
\* is not done.  Depending on the interpreter the future is cancelled at
\* once (the waiting task is cancelled) or only when request() resumes.
Timeout(i, cancelNow) ==
    /\ req[i].pc = "waiting"
    /\ fut[i].state = "pending"
    /\ req' = [req EXCEPT ![i].pc = "timedout"]
    /\ fut' = IF cancelNow THEN [fut EXCEPT ![i].state = "cancelled"] ELSE fut
    /\ UNCHANGED <<brokerVars, agentVars, pending, gathers, queue,
                   nextId>>
    /\ UNCHANGED <<hooks, extVars>>

\* request() resumes from wait_for and returns
RequestReturn(i) ==
    /\ \/ /\ req[i].pc \in {"waiting", "timedout"}
          /\ fut[i].state = "done"
          /\ req' = [req EXCEPT ![i].pc = "done",
                                ![i].result = fut[i].result,
                                ![i].how = "response"]
          /\ UNCHANGED <<pending, fut>>
       \/ /\ req[i].pc = "timedout"
          /\ fut[i].state # "done"
          /\ pending' = Popped(pending, i)
          /\ fut' = [fut EXCEPT ![i].state = "cancelled"]
          /\ req' = [req EXCEPT ![i].pc = "done", ![i].how = "timeout"]
    /\ UNCHANGED <<brokerVars, agentVars, gathers, queue, nextId>>
    /\ UNCHANGED <<hooks, extVars>>

\* --------------------------------------------------------------- Agent
\* a second call of start() starts a second loop
Start_Unguarded(o) ==
    /\ tasks[o] < 2
    /\ running' = [running EXCEPT ![o] = TRUE]
    /\ tasks' = [tasks EXCEPT ![o] = @ + 1]
    /\ hooks' = [hooks EXCEPT ![o] = @ + 1]
    /\ UNCHANGED <<brokerVars, pending, fut, gathers, queue, cur,
                   injected, req, nextId, extVars>>

\* Agent.start: on an agent that is running the call does nothing
Start(o) ==
    /\ IF ~running[o]
       THEN /\ running' = [running EXCEPT ![o] = TRUE]
            /\ tasks' = [tasks EXCEPT ![o] = @ + 1]
            /\ hooks' = [hooks EXCEPT ![o] = @ + 1]
       ELSE UNCHANGED <<running, tasks, hooks>>
    /\ UNCHANGED <<brokerVars, pending, fut, gathers, queue, cur,
                   injected, req, nextId, extVars>>

\* Agent.stop: on an agent that is not running the call does nothing;
\* otherwise the loop task is cancelled, and a handler it was suspended
\* in is abandoned: CancelledError is raised at its await and is not an
\* Exception, so the loop sends no error reply
Stop(o) ==
    /\ IF running[o]
       THEN /\ running' = [running EXCEPT ![o] = FALSE]
            /\ tasks' = [tasks EXCEPT ![o] = 0]
            /\ cur' = [cur EXCEPT ![o] = <<>>]
            /\ hooks' = [hooks EXCEPT ![o] = @ - 1]
       ELSE UNCHANGED <<running, tasks, cur, hooks>>
    /\ UNCHANGED <<brokerVars, pending, fut, gathers, queue,
                   injected, req, nextId, extVars>>

\* the loop takes the newest message
NextMessage_Last(q) == q[Len(q)]

\* _process_messages: the message the loop takes from the queue
NextMessage(q) == Head(q)

\* the loop ends at a message it has no handler for
Dequeue_Stops(o) ==
    /\ running[o]
    /\ Len(cur[o]) < tasks[o]
    /\ queue[o] # <<>>
    /\ LET e == NextMessage(queue[o])
           known == e.type \in Handlers(o) IN
       /\ queue' = [queue EXCEPT ![o] = Tail(@)]
       /\ cur' = IF known THEN [cur EXCEPT ![o] = Append(@, e)] ELSE cur
       /\ warned' = IF known THEN warned ELSE warned \cup {e.id}
       /\ running' = IF known THEN running ELSE [running EXCEPT ![o] = FALSE]
       /\ tasks' = IF known THEN tasks ELSE [tasks EXCEPT ![o] = 0]
    /\ UNCHANGED <<brokerVars, pending, fut, gathers, injected, req, nextId>>
    /\ UNCHANGED <<hooks, sent, orig, resp, busVars, handles, wsVars,
                   docVars>>

\* _process_messages, lines 260-287: an idle loop task takes the next
\* message and looks up its handler; without a handler the message is
\* logged and dropped
Dequeue(o) ==
    /\ running[o]
    /\ Len(cur[o]) < tasks[o]
    /\ queue[o] # <<>>
    /\ LET e == NextMessage(queue[o]) IN
       /\ queue' = [queue EXCEPT ![o] = Tail(@)]
       /\ cur' = IF e.type \in Handlers(o)
                 THEN [cur EXCEPT ![o] = Append(@, e)]
                 ELSE cur
       /\ warned' = IF e.type \in Handlers(o)
                    THEN warned
                    ELSE warned \cup {e.id}
    /\ UNCHANGED <<brokerVars, pending, fut, gathers, running, tasks,
                   injected, req, nextId>>
    /\ UNCHANGED <<hooks, sent, orig, resp, busVars, handles, wsVars,
                   docVars>>

\* the error reply carries no correlation id
Reply_Uncorrelated(m, outcome) ==
    IF outcome = "raise"
    THEN [CreateResponse(m, "error", FALSE) EXCEPT !.corr = NoCorr]
    ELSE CreateResponse(m, "ok", TRUE)

\* the message a finished handler makes the loop send: its own reply, or
\* the error reply the loop builds when the handler raised
Reply(m, outcome) ==
    IF outcome = "raise"
    THEN CreateResponse(m, "error", FALSE)
    ELSE CreateResponse(m, "ok", TRUE)

\* _process_messages, lines 275-290: the handler in progress finishes.
\* outcome "none": it returned no message; "ok": it returned a reply;
\* "raise": it raised.  send_message routes through the injected broker;
\* if routing the handler's reply raises, the loop sends the error reply.
HandlerDone(o, outcome, bad) ==
    /\ cur[o] # <<>>
    /\ LET m == Head(cur[o])
           r1 == Reply(m, outcome)
           R1 == Route(r1, pending, fut, bad)
           r2 == CreateResponse(m, "error", FALSE)
           R2 == Route(r2, pending, fut, bad)
           again == outcome = "ok" /\ R1.raised
           r == IF again THEN r2 ELSE r1
           R == IF again THEN R2 ELSE R1
       IN /\ cur' = [cur EXCEPT ![o] = Tail(@)]
          /\ IF outcome = "none" \/ ~injected[o]
             THEN UNCHANGED <<pending, fut, gathers, queue, req>>
             ELSE /\ pending' = R.pending
                  /\ fut' = R.fut
                  /\ queue' = R.queue
                  /\ gathers' = IF R.spawn
                                THEN Append(gathers,
                                       [msg |-> r, targets |-> R.called,
                                        caller |-> 0])
                                ELSE gathers
                  /\ req' = Seen(r, req)
    /\ UNCHANGED <<brokerVars, running, tasks, injected, nextId>>
    /\ UNCHANGED <<hooks, extVars>>

\* Agent.send_message called directly (not by the loop): routed through
\* the injected broker; without a broker the call logs an error and
\* returns normally
SendMessage(o, m, bad) ==
    LET R == Route(m, pending, fut, bad) IN
    /\ nextId <= MaxMsgs
    /\ m \in EnvMsgs(nextId)
    /\ nextId' = nextId + 1
    /\ IF injected[o]
       THEN /\ pending' = R.pending
            /\ fut' = R.fut
            /\ queue' = R.queue
            /\ gathers' = IF R.spawn
                          THEN Append(gathers,
                                 [msg |-> m, targets |-> R.called,
                                  caller |-> 0])
                          ELSE gathers
            /\ req' = Seen(m, req)
            /\ sent' = IF R.raised THEN "raised" ELSE "routed"
       ELSE /\ UNCHANGED <<pending, fut, queue, gathers, req>>
            /\ sent' = "dropped"
    /\ UNCHANGED <<brokerVars, agentVars, hooks, orig, resp, busVars,
                   handles, wsVars, warned, docVars>>

\* payloads handed to create_response
Payloads == {"ok", "error"}

\* m.create_response(payload, success) on the message orig: a new
\* AgentMessage is built from the fields of orig, which is not written
CreateResponseCall(payload, success) ==
    /\ orig # NoMsg
    /\ resp' = CreateResponse(orig, payload, success)
    /\ orig' = orig
    /\ UNCHANGED <<brokerVars, agentVars, pending, fut, gathers, queue,
                   req, nextId, hooks, sent, busVars, handles, wsVars,
                   warned, docVars>>

\* ------------------------------------------------------------ EventBus
coreVars == <<brokerVars, agentVars, pending, fut, gathers, queue, req,
              nextId, hooks, sent, orig, resp, wsVars, warned, docVars>>

\* the events that can be published as the n-th: one of type t1 about
\* document d1 and one of type t2 about no document
Events(n) ==
    { [type |-> "t1", doc |-> "d1", n |-> n],
      [type |-> "t2", doc |-> NoDoc, n |-> n] }

RECURSIVE SumOver(_, _)
SumOver(f, S) ==
    IF S = {} THEN 0
    ELSE LET x == CHOOSE y \in S : TRUE IN f[x] + SumOver(f, S \ {x})

\* number of subscriptions held by the three tables
NSubs ==
    SumOver([t \in EvTypes |-> Len(typeSubs[t])], EvTypes)
    + SumOver([d \in Docs |-> Cardinality(docSubs[d])], Docs)
    + Len(globalSubs)

\* list.remove(c), guarded by `if c in list`: the first occurrence goes
RemoveFirst(q, c) ==
    IF \E k \in 1..Len(q) : q[k] = c
    THEN LET k == CHOOSE n \in 1..Len(q) :
                      q[n] = c /\ \A j \in 1..(n - 1) : q[j] # c
         IN SubSeq(q, 1, k - 1) \o SubSeq(q, k + 1, Len(q))
    ELSE q

\* the orders in which a set is iterated
Orders(S) ==
    { q \in [1..Cardinality(S) -> S] : \A c \in S : \E k \in DOMAIN q : q[k] = c }

\* the history keeps its oldest events
Truncate_Oldest(h) ==
    IF Len(h) > MaxHistory THEN SubSeq(h, 1, MaxHistory) ELSE h

\* publish, lines 257-258: the history is cut to its newest events
Truncate(h) ==
    IF Len(h) > MaxHistory
    THEN SubSeq(h, Len(h) - MaxHistory + 1, Len(h))
    ELSE h

\* event_type = None
NoType == "none"

\* limits passed to get_history
Limits == 0..MaxHistory

\* events[-limit:], line 309: the slice from index -limit; -0 is index 0,
\* the start of the list
Slice(q, limit) ==
    IF limit = 0 THEN q
    ELSE SubSeq(q, Len(q) - (IF limit < Len(q) THEN limit ELSE Len(q)) + 1,
                Len(q))

\* get_history(event_type, document_id, limit): a filter is applied when
\* its argument is not None
GetHistory(h, t, d, limit) ==
    LET byType == IF t # NoType
                  THEN SelectSeq(h, LAMBDA e : e.type = t) ELSE h
        byDoc == IF d # NoDoc
                 THEN SelectSeq(byType, LAMBDA e : e.doc = d) ELSE byType
    IN Slice(byDoc, limit)

\* a call of get_history
GetHistoryCall(t, d, limit) ==
    /\ returned' = GetHistory(history, t, d, limit)
    /\ UNCHANGED <<typeSubs, docSubs, globalSubs, history, pub, nPub,
                   coreVars, handles>>

\* subscribe(event_type, callback)
Subscribe(t, c) ==
    /\ NSubs < MaxSubs
    /\ typeSubs' = [typeSubs EXCEPT ![t] = Append(@, c)]
    /\ UNCHANGED <<docSubs, globalSubs, history, pub, nPub,
                   returned, coreVars>>

\* subscribe_to_document(document_id, callback): the callbacks of a
\* document are a set
SubscribeToDocument(d, c) ==
    /\ NSubs < MaxSubs
    /\ docSubs' = [docSubs EXCEPT ![d] = @ \cup {c}]
    /\ UNCHANGED <<typeSubs, globalSubs, history, pub, nPub,
                   returned, coreVars>>

\* subscribe_all(callback)
SubscribeAll(c) ==
    /\ NSubs < MaxSubs
    /\ globalSubs' = Append(globalSubs, c)
    /\ UNCHANGED <<typeSubs, docSubs, history, pub, nPub, returned, coreVars>>

\* the unsubscribe closure returned by subscribe(t, c)
Unsubscribe(t, c) ==
    /\ typeSubs' = [typeSubs EXCEPT ![t] = RemoveFirst(@, c)]
    /\ UNCHANGED <<docSubs, globalSubs, history, pub, nPub,
                   returned, coreVars>>

\* the unsubscribe closure returned by subscribe_to_document(d, c)
UnsubscribeDocument(d, c) ==
    /\ docSubs' = [docSubs EXCEPT ![d] = @ \ {c}]
    /\ UNCHANGED <<typeSubs, globalSubs, history, pub, nPub,
                   returned, coreVars>>

\* the unsubscribe closure returned by subscribe_all(c)
UnsubscribeAll(c) ==
    /\ globalSubs' = RemoveFirst(globalSubs, c)
    /\ UNCHANGED <<typeSubs, docSubs, history, pub, nPub, returned, coreVars>>

\* the closure returned by a subscribe call: it holds the table it was
\* made for, the key and the callback, and nothing else
Handle(kind, key, c) == [kind |-> kind, key |-> key, cb |-> c, called |-> FALSE]

\* unsubscribe = subscribe(t, c): the caller keeps the closure
SubscribeKeep(t, c) ==
    /\ Len(handles) < MaxHandles
    /\ Subscribe(t, c)
    /\ handles' = Append(handles, Handle("type", t, c))

\* unsubscribe = subscribe_to_document(d, c): the caller keeps the closure
SubscribeToDocumentKeep(d, c) ==
    /\ Len(handles) < MaxHandles
    /\ SubscribeToDocument(d, c)
    /\ handles' = Append(handles, Handle("document", d, c))

\* unsubscribe = subscribe_all(c): the caller keeps the closure
SubscribeAllKeep(c) ==
    /\ Len(handles) < MaxHandles
    /\ SubscribeAll(c)
    /\ handles' = Append(handles, Handle("all", NoType, c))

\* unsubscribe(): the k-th closure kept is called; called records that it
\* was, the closure itself keeps no state
CallHandle(k) ==
    /\ k \in 1..Len(handles)
    /\ LET h == handles[k] IN
       CASE h.kind = "type" -> Unsubscribe(h.key, h.cb)
         [] h.kind = "document" -> UnsubscribeDocument(h.key, h.cb)
         [] h.kind = "all" -> UnsubscribeAll(h.cb)
    /\ handles' = [handles EXCEPT ![k].called = TRUE]

\* publish(event), lines 255-273: the event is stored and the list
\* callbacks_to_call is built; order is the iteration order of the set of
\* the document's callbacks
PublishStart(e, order) ==
    /\ pub.pc # "running"
    /\ nPub < MaxEvents
    /\ e \in Events(nPub + 1)
    /\ order \in Orders(IF e.doc # NoDoc THEN docSubs[e.doc] ELSE {})
    /\ LET todo == typeSubs[e.type] \o order \o globalSubs IN
       pub' = [event |-> e, todo |-> todo, invoked |-> <<>>,
               pc |-> IF todo = <<>> THEN "returned" ELSE "running"]
    /\ history' = Truncate(Append(history, e))
    /\ nPub' = nPub + 1
    /\ UNCHANGED <<typeSubs, docSubs, globalSubs, returned, coreVars, handles>>

\* a callback that raises ends the publish
Invoke_Abort(raises) ==
    /\ pub.pc = "running"
    /\ pub' = [pub EXCEPT
                 !.invoked = Append(@, [cb |-> Head(pub.todo),
                                        raised |-> raises]),
                 !.todo = IF raises THEN <<>> ELSE Tail(@),
                 !.pc = IF raises THEN "raised"
                        ELSE IF Tail(pub.todo) = <<>> THEN "returned"
                        ELSE "running"]
    /\ UNCHANGED <<typeSubs, docSubs, globalSubs, history, nPub,
                   returned, coreVars, handles>>

\* the loop looks the remaining callbacks up again at every step
Invoke_Live(raises) ==
    /\ pub.pc = "running"
    /\ LET live(c) ==
               \/ \E k \in 1..Len(typeSubs[pub.event.type]) :
                      typeSubs[pub.event.type][k] = c
               \/ pub.event.doc # NoDoc /\ c \in docSubs[pub.event.doc]
               \/ \E k \in 1..Len(globalSubs) : globalSubs[k] = c
           rest == SelectSeq(Tail(pub.todo), live)
       IN pub' = [pub EXCEPT
                    !.invoked = Append(@, [cb |-> Head(pub.todo),
                                           raised |-> raises]),
                    !.todo = rest,
                    !.pc = IF rest = <<>> THEN "returned" ELSE "running"]
    /\ UNCHANGED <<typeSubs, docSubs, globalSubs, history, nPub,
                   returned, coreVars, handles>>

\* publish, lines 276-283: the next callback is invoked; if it raises the
\* exception is logged and the loop goes on
Invoke(raises) ==
    /\ pub.pc = "running"
    /\ pub' = [pub EXCEPT
                 !.invoked = Append(@, [cb |-> Head(pub.todo),
                                        raised |-> raises]),
                 !.todo = Tail(@),
                 !.pc = IF Tail(pub.todo) = <<>> THEN "returned"
                        ELSE "running"]
    /\ UNCHANGED <<typeSubs, docSubs, globalSubs, history, nPub,
                   returned, coreVars, handles>>

\* ------------------------------------------------ WebSocketManager, steps
\* The manager's state as one value; the coroutines below are functions
\* from one such value to the next.
WS ==
    [connections |-> connections, rooms |-> document_rooms,
     client |-> client, tasks |-> wtasks, outbox |-> outbox]

\* the state w becomes the next state
Commit(w) ==
    /\ connections' = w.connections
    /\ document_rooms' = w.rooms
    /\ client' = w.client
    /\ wtasks' = w.tasks
    /\ outbox' = w.outbox

\* document_id in self._document_rooms
HasRoom(r, d) == \E i \in 1..Len(r.keys) : r.keys[i] = d

\* lines 193-196: the room is created when it is missing, the user added
AddMember(r, d, x) ==
    [keys |-> IF HasRoom(r, d) THEN r.keys ELSE Append(r.keys, d),
     members |-> [r.members EXCEPT ![d] = @ \cup {x}]]

\* self._document_rooms[d].discard(x)
Discard(r, d, x) == [r EXCEPT !.members[d] = @ \ {x}]

\* a room without members stays in the index
DeleteIfEmpty_Keep(r, d) == r

\* if not self._document_rooms[d]: del self._document_rooms[d]
DeleteIfEmpty(r, d) ==
    IF r.members[d] = {}
    THEN [r EXCEPT !.keys = SelectSeq(@, LAMBDA x : x # d)]
    ELSE r

\* the frame task t is executing
Top(w, t) == w.tasks[t].stack[Len(w.tasks[t].stack)]

\* the executing frame moves on
SetTop(w, t, fr) ==
    [w EXCEPT !.tasks[t].stack = [@ EXCEPT ![Len(@)] = fr]]

\* await of a coroutine: its frame runs on the caller's task
Push(w, t, fr) == [w EXCEPT !.tasks[t].stack = Append(@, fr)]

\* gather without return_exceptions: the exception of task t is raised
\* in the coroutine awaiting it
Finish_Propagate(w, t) ==
    LET p == w.tasks[t].parent IN
    [w EXCEPT !.tasks =
        [x \in TaskIds |->
            IF x = t THEN NoTask
            ELSE IF x = p THEN [w.tasks[x] EXCEPT !.wait = @ - 1,
                                                  !.exc = w.tasks[t].exc]
            ELSE w.tasks[x]]]

\* task t is done, with a result or an exception; the gather awaiting it
\* has one task less to wait for
Finish(w, t) ==
    LET p == w.tasks[t].parent IN
    [w EXCEPT !.tasks =
        [x \in TaskIds |->
            IF x = t THEN NoTask
            ELSE IF x = p THEN [w.tasks[x] EXCEPT !.wait = @ - 1]
            ELSE w.tasks[x]]]

\* the executing coroutine returns to its caller; a task whose last
\* coroutine returns is done
Pop(w, t) ==
    LET s == w.tasks[t].stack IN
    IF Len(s) = 1 THEN Finish(w, t)
    ELSE [w EXCEPT !.tasks[t].stack = SubSeq(s, 1, Len(s) - 1)]

\* a task id not in use
FreeTask(w) ==
    LET free == { i \in Pool : w.tasks[i].stack = <<>> }
    IN CHOOSE i \in free : \A j \in free : i <= j

\* lines 449-455: one _send_to_user coroutine per target, each wrapped in
\* a task by gather, which task t awaits
RECURSIVE Gather(_, _, _, _)
Gather(w, t, targets, msg) ==
    IF targets = {} THEN w
    ELSE LET x == CHOOSE y \in targets : TRUE
             i == FreeTask(w)
         IN Gather([w EXCEPT
                       !.tasks[i] =
                           [NoTask EXCEPT
                               !.stack = <<Frame("send", "start", x, NoDoc,
                                                 <<>>, msg, NoUser)>>,
                               !.parent = t],
                       !.tasks[t].wait = @ + 1],
                   t, targets \ {x}, msg)

\* exclude_user is ignored
BroadcastToDocument_Echo(d, msg, excl) ==
    [f |-> "broadcast", pc |-> "start", user |-> NoUser, doc |-> d,
     keys |-> <<>>, msg |-> msg, excl |-> NoUser]

\* the frames of the coroutines as they are called
SendToUser(x, msg) == Frame("send", "start", x, NoDoc, <<>>, msg, NoUser)
BroadcastToDocument(d, msg, excl) ==
    Frame("broadcast", "start", NoUser, d, <<>>, msg, excl)
DisconnectFrame(w, x) ==
    Frame("disconnect", "loop", x, NoDoc, w.rooms.keys, NoPayload, NoUser)

\* active_users lists the members of the room other than the one who joined
UserJoined_Others(x, d, r) ==
    [type |-> "user_joined", user |-> x, doc |-> d,
     users |-> r.members[d] \ {x}]

\* the payloads of join_document, lines 206-219, and of leave_document and
\* disconnect, lines 159-164 and 249-255; r is the room index when the
\* payload is built
UserJoined(x, d, r) == Payload("user_joined", x, d, r.members[d])
RoomInfo(d, r) == Payload("room_info", NoUser, d, r.members[d])
UserLeft(x, d, r) == Payload("user_left", x, d, r.members[d])

\* the user_id of the event is looked at before its document_id
EventCall_UserFirst(e) ==
    IF e.user # NoUser
    THEN [f |-> "send", pc |-> "start", user |-> e.user, doc |-> NoDoc,
          keys |-> <<>>, msg |-> e, excl |-> NoUser]
    ELSE IF e.doc # NoDoc
    THEN [f |-> "broadcast", pc |-> "start", user |-> NoUser, doc |-> e.doc,
          keys |-> <<>>, msg |-> e, excl |-> e.user]
    ELSE [f |-> "none", pc |-> "none", user |-> NoUser, doc |-> NoDoc,
          keys |-> <<>>, msg |-> NoPayload, excl |-> NoUser]

\* _handle_event, lines 406-415: the coroutine the event e is handed to
EventCall(e) ==
    IF e.doc # NoDoc THEN BroadcastToDocument(e.doc, e, e.user)
    ELSE IF e.user # NoUser THEN SendToUser(e.user, e)
    ELSE Frame("none", "none", NoUser, NoDoc, <<>>, NoPayload, NoUser)

\* an exception is raised in the executing frame
Raise(w, t) == [w EXCEPT !.tasks[t].exc = TRUE]

\* The exception leaves the executing frame.  websocket_endpoint catches
\* it and goes to its finally clause, line 536; an exception raised in the
\* finally clause ends the endpoint; _handle_event catches it, line 417;
\* every other coroutine lets it through, and it ends a task created by
\* gather, which keeps it as the task's result.
Unwind(w, t) ==
    LET s == w.tasks[t].stack IN
    IF Len(s) = 1 THEN Finish(w, t)
    ELSE LET below == s[Len(s) - 1]
             w1 == [w EXCEPT !.tasks[t].stack = SubSeq(s, 1, Len(s) - 1)]
             w2 == [w1 EXCEPT !.tasks[t].exc = FALSE]
         IN IF below.f = "endpoint"
            THEN IF below.pc = "busy"
                 THEN Push(SetTop(w2, t, [below EXCEPT !.pc = "finally"]),
                           t, DisconnectFrame(w2, below.user))
                 ELSE SetTop(w2, t, [below EXCEPT !.pc = "failed"])
            ELSE IF below.f = "event" THEN w2
            ELSE w1

\* One step of task t: the executing frame runs to its next await, call or
\* return.
Micro(w, t) ==
    LET fr == Top(w, t)
        r == w.rooms
    IN
    IF w.tasks[t].exc THEN Unwind(w, t)
    ELSE CASE
      \* join_document, lines 193-212
      fr.f = "join" /\ fr.pc = "start" ->
        LET r2 == AddMember(r, fr.doc, fr.user)
            w1 == SetTop([w EXCEPT !.rooms = r2], t,
                         [fr EXCEPT !.pc = "info",
                                    !.msg = RoomInfo(fr.doc, r2)])
        IN Push(w1, t, BroadcastToDocument(fr.doc,
                                           UserJoined(fr.user, fr.doc, r2),
                                           fr.user))
      \* join_document, lines 215-219
      [] fr.f = "join" /\ fr.pc = "info" ->
        SetTop(w, t, SendToUser(fr.user, fr.msg))
      \* leave_document, lines 238-255
      [] fr.f = "leave" /\ fr.pc = "start" ->
        IF HasRoom(r, fr.doc)
        THEN LET r2 == Discard(r, fr.doc, fr.user)
                 w1 == SetTop([w EXCEPT !.rooms = r2], t,
                              [fr EXCEPT !.pc = "after"])
             IN Push(w1, t, BroadcastToDocument(fr.doc,
                                                UserLeft(fr.user, fr.doc, r2),
                                                NoUser))
        ELSE Pop(w, t)
      \* leave_document, lines 258-259: KeyError when the room is gone
      [] fr.f = "leave" /\ fr.pc = "after" ->
        IF HasRoom(r, fr.doc)
        THEN Pop([w EXCEPT !.rooms = DeleteIfEmpty(r, fr.doc)], t)
        ELSE Raise(w, t)
      \* disconnect, lines 154-164 and 171-173: KeyError at line 155 when
      \* the room is gone
      [] fr.f = "disconnect" /\ fr.pc = "loop" ->
        IF fr.keys = <<>>
        THEN Pop([w EXCEPT !.connections[fr.user] = NoConn], t)
        ELSE LET d == Head(fr.keys) IN
             IF ~HasRoom(r, d) THEN Raise(w, t)
             ELSE IF fr.user \in r.members[d]
                  THEN LET r2 == Discard(r, d, fr.user)
                           w1 == SetTop([w EXCEPT !.rooms = r2], t,
                                        [fr EXCEPT !.pc = "after"])
                       IN Push(w1, t,
                               BroadcastToDocument(d, UserLeft(fr.user, d, r2),
                                                   fr.user))
                  ELSE SetTop(w, t, [fr EXCEPT !.keys = Tail(@)])
      \* disconnect, lines 167-168: KeyError when the room is gone
      [] fr.f = "disconnect" /\ fr.pc = "after" ->
        LET d == Head(fr.keys) IN
        IF HasRoom(r, d)
        THEN SetTop([w EXCEPT !.rooms = DeleteIfEmpty(r, d)], t,
                    [fr EXCEPT !.pc = "loop", !.keys = Tail(@)])
        ELSE Raise(w, t)
      \* _broadcast_to_document, lines 446-455
      [] fr.f = "broadcast" /\ fr.pc = "start" ->
        IF ~HasRoom(r, fr.doc) THEN Pop(w, t)
        ELSE LET targets == r.members[fr.doc] \ {fr.excl} IN
             IF targets = {} THEN Pop(w, t)
             ELSE Gather(SetTop(w, t, [fr EXCEPT !.pc = "gathered"]),
                         t, targets, fr.msg)
      \* gather has returned
      [] fr.f = "broadcast" /\ fr.pc = "gathered" -> Pop(w, t)
      \* _send_to_user, lines 422-428: send_json raises on a socket whose
      \* peer is gone
      [] fr.f = "send" /\ fr.pc = "start" ->
        LET k == w.connections[fr.user] IN
        IF k # NoConn /\ w.client[k] # "closed"
        THEN IF w.client[k] = "open"
             THEN Pop([w EXCEPT !.outbox[k] = @ \cup {fr.msg}], t)
             ELSE Push(SetTop(w, t, [fr EXCEPT !.pc = "cleanup"]), t,
                       DisconnectFrame(w, fr.user))
        ELSE Pop(w, t)
      \* disconnect has returned to _send_to_user
      [] fr.f = "send" /\ fr.pc = "cleanup" -> Pop(w, t)
      \* _handle_event, lines 405-415
      [] fr.f = "event" /\ fr.pc = "start" ->
        IF EventCall(fr.msg).f # "none"
        THEN Push(SetTop(w, t, [fr EXCEPT !.pc = "end"]), t,
                  EventCall(fr.msg))
        ELSE Pop(w, t)
      [] fr.f = "event" /\ fr.pc = "end" -> Pop(w, t)
      \* websocket_endpoint: connect or handle_message has returned, line
      \* 528 is next; disconnect has returned, the endpoint is done
      [] fr.f = "endpoint" /\ fr.pc = "busy" ->
        SetTop(w, t, [fr EXCEPT !.pc = "recv"])
      [] fr.f = "endpoint" /\ fr.pc = "finally" ->
        SetTop(w, t, [fr EXCEPT !.pc = "done"])

\* task t can run: it is not done, awaits no gather and no socket
Runnable(w, t) ==
    /\ w.tasks[t].stack # <<>>
    /\ w.tasks[t].wait = 0
    /\ ~(Top(w, t).f = "endpoint"
         /\ Top(w, t).pc \in {"route", "rejected", "accept", "recv", "done",
                              "failed"})

\* task t runs until it awaits a gather or a socket, or is done
RECURSIVE Run(_, _)
Run(w, t) == IF Runnable(w, t) THEN Run(Micro(w, t), t) ELSE w

\* messages of clients, lines 277-307
ClientMsgs ==
    [type : {"join_document", "leave_document", "cursor_update",
             "text_change"}, doc : Rooms]
    \cup {[type |-> "ping", doc |-> NoDoc]}

\* cursor_update and text_change are broadcast to the sender as well
Handler_Echo(x, m) ==
    CASE m.type = "join_document" ->
           Frame("join", "start", x, m.doc, <<>>, NoPayload, NoUser)
      [] m.type = "leave_document" ->
           Frame("leave", "start", x, m.doc, <<>>, NoPayload, NoUser)
      [] m.type = "cursor_update" ->
           BroadcastToDocument(m.doc, Payload("cursor_update", x, m.doc, {}),
                               NoUser)
      [] m.type = "text_change" ->
           BroadcastToDocument(m.doc, Payload("text_change", x, m.doc, {}),
                               NoUser)
      [] m.type = "ping" ->
           SendToUser(x, Payload("pong", NoUser, NoDoc, {}))

\* handle_message(user_id, data), lines 277-307: the coroutine called for
\* the message m of user x
Handler(x, m) ==
    CASE m.type = "join_document" ->
           Frame("join", "start", x, m.doc, <<>>, NoPayload, NoUser)
      [] m.type = "leave_document" ->
           Frame("leave", "start", x, m.doc, <<>>, NoPayload, NoUser)
      [] m.type = "cursor_update" ->
           BroadcastToDocument(m.doc, Payload("cursor_update", x, m.doc, {}), x)
      [] m.type = "text_change" ->
           BroadcastToDocument(m.doc, Payload("text_change", x, m.doc, {}), x)
      [] m.type = "ping" ->
           SendToUser(x, Payload("pong", NoUser, NoDoc, {}))

\* the endpoint of connection k is at pc
EndpointAt(k, pc) ==
    /\ Len(wtasks[EndpointTask(k)].stack) = 1
    /\ wtasks[EndpointTask(k)].stack[1].pc = pc

\* everything outside the manager
wsRest ==
    <<brokerVars, agentVars, pending, fut, gathers, queue, req, nextId,
      hooks, sent, orig, resp, busVars, handles, warned, docVars>>

\* connect, lines 119-135: accept returns, the connection is stored and
\* the welcome message sent
Accept(k) ==
    /\ EndpointAt(k, "accept")
    /\ LET t == EndpointTask(k)
           w1 == [WS EXCEPT !.connections[UserOf(k)] = k]
           w2 == SetTop(w1, t, [Top(w1, t) EXCEPT !.pc = "busy"])
           w3 == Push(w2, t, SendToUser(UserOf(k),
                                        Payload("connected", UserOf(k),
                                                NoDoc, {})))
       IN Commit(Run(w3, t))
    /\ UNCHANGED <<nMsgs, nBridge, wsRest>>

\* receive_json returns the message m, line 528, and handle_message is
\* called, line 529; a message the peer sent before it went is still read
Receive(k, m) ==
    /\ EndpointAt(k, "recv")
    /\ client[k] # "closed"
    /\ nMsgs < MaxWsMsgs
    /\ LET t == EndpointTask(k)
           w1 == SetTop(WS, t, [Top(WS, t) EXCEPT !.pc = "busy"])
       IN Commit(Run(Push(w1, t, Handler(UserOf(k), m)), t))
    /\ nMsgs' = nMsgs + 1
    /\ UNCHANGED <<nBridge, wsRest>>

\* receive_json raises WebSocketDisconnect, lines 531-536: the socket is
\* closed and the finally clause calls disconnect
ReceiveDisconnect(k) ==
    /\ EndpointAt(k, "recv")
    /\ LET t == EndpointTask(k)
           w1 == [WS EXCEPT !.client[k] = "closed"]
           w2 == SetTop(w1, t, [Top(w1, t) EXCEPT !.pc = "finally"])
       IN Commit(Run(Push(w2, t, DisconnectFrame(w2, UserOf(k))), t))
    /\ UNCHANGED <<nMsgs, nBridge, wsRest>>

\* the peer of connection k goes away without closing the socket: from now
\* on send_json raises
Drop(k) ==
    /\ client[k] = "open"
    /\ client' = [client EXCEPT ![k] = "closing"]
    /\ UNCHANGED <<connections, document_rooms, wtasks, outbox, nMsgs,
                   nBridge, wsRest>>

\* the events the bus hands over: about a document or not, by a user or not
BridgeEvents ==
    { Payload("event", x, d, {}) :
        x \in Users \cup {NoUser}, d \in Rooms \cup {NoDoc} }

\* publish calls _handle_event(event), subscribed at line 94, on the task
\* of the publisher
HandleEvent(e) ==
    /\ nBridge < MaxBridge
    /\ LET t == FreeTask(WS)
           w1 == [WS EXCEPT !.tasks[t] =
                     [NoTask EXCEPT !.stack =
                         <<Frame("event", "start", e.user, e.doc, <<>>, e,
                                 NoUser)>>]]
       IN Commit(Run(w1, t))
    /\ nBridge' = nBridge + 1
    /\ UNCHANGED <<nMsgs, wsRest>>

\* the event loop runs task t: a task created by gather starts, or a
\* coroutine whose gather has returned goes on
Schedule(t) ==
    /\ Runnable(WS, t)
    /\ Commit(Run(WS, t))
    /\ UNCHANGED <<nMsgs, nBridge, wsRest>>

\* Connections are accepted, clients send messages and go away, the bus
\* hands events over, and the event loop runs the tasks that can run.
NextWs ==
    \/ \E k \in Conns : Accept(k)
    \/ \E k \in Conns, m \in ClientMsgs : Receive(k, m)
    \/ \E k \in Conns : ReceiveDisconnect(k)
    \/ \E k \in Conns : Drop(k)
    \/ \E e \in BridgeEvents : HandleEvent(e)
    \/ \E t \in TaskIds : Schedule(t)

SpecWs == Init /\ [][NextWs]_vars

\* U has joined room d1 and V after U, each has been sent what the joins
\* sent it, and both endpoints await a message; nMsgs counts the messages
\* received from here on
InitJoined ==
    /\ agents = [i \in Ids |-> NoObj]
    /\ subscribers = [t \in Types |-> <<>>]
    /\ pending = {}
    /\ fut = [i \in 1..MaxMsgs |-> NoFut]
    /\ gathers = <<>>
    /\ queue = [o \in Objs |-> <<>>]
    /\ running = [o \in Objs |-> FALSE]
    /\ tasks = [o \in Objs |-> 0]
    /\ cur = [o \in Objs |-> <<>>]
    /\ injected = [o \in Objs |-> FALSE]
    /\ req = [i \in 1..MaxMsgs |-> NoFrame]
    /\ nextId = 1
    /\ hooks = [o \in Objs |-> 0]
    /\ InitOuter
    /\ connections = [x \in Users |-> IF x = "u" THEN "k1" ELSE "k2"]
    /\ document_rooms =
          [keys |-> <<"d1">>,
           members |-> [d \in Rooms |-> IF d = "d1" THEN Users ELSE {}]]
    /\ client = [k \in Conns |-> "open"]
    /\ wtasks = [t \in TaskIds |->
                   IF \E k \in Conns : EndpointTask(k) = t
                   THEN [NoTask EXCEPT !.stack =
                            <<Frame("endpoint", "recv",
                                    Sub(CHOOSE k \in Conns :
                                            EndpointTask(k) = t),
                                    NoDoc, <<>>, NoPayload, NoUser)>>]
                   ELSE NoTask]
    /\ outbox =
          [k \in Conns |->
              IF k = "k1"
              THEN {Payload("connected", "u", NoDoc, {}),
                    Payload("room_info", NoUser, "d1", {"u"}),
                    Payload("user_joined", "v", "d1", Users)}
              ELSE {Payload("connected", "v", NoDoc, {}),
                    Payload("room_info", NoUser, "d1", Users)}]
    /\ nMsgs = 0
    /\ nBridge = 0

\* The clients of a room send messages and go away, and the event loop
\* runs the tasks that can run.
NextWsJoined ==
    \/ \E k \in Conns, m \in ClientMsgs : Receive(k, m)
    \/ \E k \in Conns : ReceiveDisconnect(k)
    \/ \E k \in Conns : Drop(k)
    \/ \E t \in TaskIds : Schedule(t)

SpecWsJoined == InitJoined /\ [][NextWsJoined]_vars

\* JWT tokens: the subject, whether the signature was made with
\* SECRET_KEY, and whether the expiry time has passed
Tokens == [sub : Users, sig : {"good", "forged"}, exp : {"future", "past"}]
NoClaims == [sub |-> NoUser]

\* verify_token, lines 193-198: the claims of the token, or None when
\* jwt.decode raises JWTError (bad signature, expired)
VerifyToken(tok) ==
    IF tok.sig = "good" /\ tok.exp = "future"
    THEN [sub |-> tok.sub]
    ELSE NoClaims

\* the connection is registered before the token is looked at
WebsocketRoute_ConnectFirst(k, tok) ==
    /\ EndpointAt(k, "route")
    /\ LET t == EndpointTask(k)
           ok == VerifyToken(tok) # NoClaims
           w1 == [WS EXCEPT !.connections[tok.sub] = k,
                            !.client[k] = IF ok THEN @ ELSE "closed"]
       IN Commit(SetTop(w1, t, [Top(w1, t) EXCEPT
                    !.pc = IF ok THEN "accept" ELSE "rejected",
                    !.user = IF ok THEN tok.sub ELSE NoUser]))
    /\ UNCHANGED <<nMsgs, nBridge, wsRest>>

\* websocket_route, main.py lines 234-246: the token of the upgrade
\* request of connection k is verified; without claims the socket is
\* closed and the route returns, otherwise websocket_endpoint is called
\* with the subject
WebsocketRoute(k, tok) ==
    /\ EndpointAt(k, "route")
    /\ LET t == EndpointTask(k)
           payload == VerifyToken(tok)
       IN IF payload = NoClaims
          THEN LET w1 == [WS EXCEPT !.client[k] = "closed"] IN
               Commit(SetTop(w1, t, [Top(w1, t) EXCEPT !.pc = "rejected"]))
          ELSE Commit(SetTop(WS, t, [Top(WS, t) EXCEPT
                         !.pc = "accept", !.user = payload.sub]))
    /\ UNCHANGED <<nMsgs, nBridge, wsRest>>

\* Two upgrade requests arrive, each with any token; the clients send
\* messages and go away.
InitUpgrade ==
    /\ agents = [i \in Ids |-> NoObj]
    /\ subscribers = [t \in Types |-> <<>>]
    /\ pending = {}
    /\ fut = [i \in 1..MaxMsgs |-> NoFut]
    /\ gathers = <<>>
    /\ queue = [o \in Objs |-> <<>>]
    /\ running = [o \in Objs |-> FALSE]
    /\ tasks = [o \in Objs |-> 0]
    /\ cur = [o \in Objs |-> <<>>]
    /\ injected = [o \in Objs |-> FALSE]
    /\ req = [i \in 1..MaxMsgs |-> NoFrame]
    /\ nextId = 1
    /\ hooks = [o \in Objs |-> 0]
    /\ InitOuter
    /\ connections = [x \in Users |-> NoConn]
    /\ document_rooms = [keys |-> <<>>, members |-> [d \in Rooms |-> {}]]
    /\ client = [k \in Conns |-> "open"]
    /\ wtasks = [t \in TaskIds |->
                   IF \E k \in Conns : EndpointTask(k) = t
                   THEN [NoTask EXCEPT !.stack =
                            <<Frame("endpoint", "route", NoUser, NoDoc,
                                    <<>>, NoPayload, NoUser)>>]
                   ELSE NoTask]
    /\ outbox = [k \in Conns |-> {}]
    /\ nMsgs = 0
    /\ nBridge = 0

NextUpgrade ==
    \/ \E k \in Conns, tok \in Tokens : WebsocketRoute(k, tok)
    \/ \E k \in Conns : Accept(k)
    \/ \E k \in Conns, m \in ClientMsgs : Receive(k, m)
    \/ \E k \in Conns : ReceiveDisconnect(k)
    \/ \E k \in Conns : Drop(k)
    \/ \E t \in TaskIds : Schedule(t)

SpecUpgrade == InitUpgrade /\ [][NextUpgrade]_vars

\* ------------------------------------- DocumentEditingAgent, VersionControlAgent
\* everything outside the two agents and the database
docRest ==
    <<brokerVars, agentVars, pending, fut, gathers, queue, req, nextId,
      hooks, sent, orig, resp, busVars, handles, wsVars, warned>>

\* Document.can_edit: owner and collaborators
CanEdit(x) == x \in Users

\* document.edit_version or 1
CurrentVersion(d) == IF d.edit_version = 0 THEN 1 ELSE d.edit_version

\* the largest version_number of the rows V, 0 without rows
MaxNumber(V) ==
    IF V = <<>> THEN 0
    ELSE CHOOSE n \in {V[k].number : k \in 1..Len(V)} :
            \A k \in 1..Len(V) : V[k].number <= n

\* a new version takes the number of the latest one
NextNumber_Latest(V) == IF V = <<>> THEN 1 ELSE MaxNumber(V)

\* the number of the next version of a document with rows V
NextNumber(V) == MaxNumber(V) + 1

\* the row with the largest version_number
Latest(V) == CHOOSE r \in {V[k] : k \in 1..Len(V)} : r.number = MaxNumber(V)

\* _handle_read: a client that may still send an update loads the document
Load(x) ==
    /\ nUpdates < MaxUpdates
    /\ view' = [view EXCEPT ![x] = database.doc]
    /\ view'[x] # view[x]
    /\ UNCHANGED <<database, docAgent, verAgent, replies, published,
                   nUpdates, nVersionOps, docRest>>

\* the payloads of the DOC_UPDATE messages of user x: a content, a
\* content with a version asked for, or a title, with the edit_version x
\* loaded as expected_version; a content without expected_version
UpdatesOf(x) ==
    { [NoOp EXCEPT !.type = "DOC_UPDATE", !.user = x, !.content = c,
                   !.expected = CurrentVersion(view[x]),
                   !.base = view[x].content,
                   !.create_version = cv] :
         c \in Contents, cv \in BOOLEAN }
    \cup { [NoOp EXCEPT !.type = "DOC_UPDATE", !.user = x, !.title = "t1",
                        !.expected = CurrentVersion(view[x]),
                        !.base = view[x].content],
           [NoOp EXCEPT !.type = "DOC_UPDATE", !.user = x,
                        !.content = "c1"] }

\* the DOC_UPDATE message of the user who may not edit
ViewerUpdate ==
    [NoOp EXCEPT !.type = "DOC_UPDATE", !.user = Viewer, !.content = "c1"]

\* a client sends the DOC_UPDATE message m
SendUpdate(m) ==
    /\ nUpdates < MaxUpdates
    /\ nUpdates' = nUpdates + 1
    /\ docAgent' = [docAgent EXCEPT
                      !.queue = Append(@, [m EXCEPT !.id = nUpdates + 1])]
    /\ UNCHANGED <<database, verAgent, replies, published, nVersionOps,
                   view, docRest>>

\* a client sends VERSION_CREATE, with a content or without
SendCreate(x, c) ==
    /\ nVersionOps < MaxVersionOps
    /\ nVersionOps' = nVersionOps + 1
    /\ verAgent' = [verAgent EXCEPT !.queue = Append(@,
          [NoOp EXCEPT !.id = MaxUpdates + nVersionOps + 1,
                       !.type = "VERSION_CREATE",
                       !.user = x, !.content = c])]
    /\ UNCHANGED <<database, docAgent, replies, published, nUpdates, view,
                   docRest>>

\* a client sends VERSION_REVERT for version_number n
SendRevert(x, n) ==
    /\ nVersionOps < MaxVersionOps
    /\ nVersionOps' = nVersionOps + 1
    /\ verAgent' = [verAgent EXCEPT !.queue = Append(@,
          [NoOp EXCEPT !.id = MaxUpdates + nVersionOps + 1,
                       !.type = "VERSION_REVERT",
                       !.user = x, !.number = n])]
    /\ UNCHANGED <<database, docAgent, replies, published, nUpdates, view,
                   docRest>>

\* _process_messages and _handle_update, lines 330-341: the loop takes the
\* next message and the handler loads the document
DocTake ==
    /\ docAgent.cur = NoOp
    /\ docAgent.queue # <<>>
    /\ docAgent' = [queue |-> Tail(docAgent.queue),
                    cur |-> Head(docAgent.queue),
                    document |-> database.doc]
    /\ UNCHANGED <<database, verAgent, replies, published, nUpdates,
                   nVersionOps, view, docRest>>

\* the version test finds nothing
Conflict_Never(m, d) == FALSE

\* _handle_update, lines 358-359: the optimistic-lock test on the loaded
\* document d
Conflict(m, d) ==
    m.expected # NoVersion /\ m.expected # CurrentVersion(d)

\* changes_made, lines 376-404
Changes(m, d) ==
    (IF m.content # NoContent /\ m.content # d.content
     THEN {"content"} ELSE {})
    \cup (IF m.title # NoTitle /\ m.title # d.title THEN {"title"} ELSE {})

\* edit_version is left as it is
Written_NoBump(stored, d, m) ==
    [stored EXCEPT
       !.content = IF "content" \in Changes(m, d) THEN m.content ELSE @,
       !.title = IF "title" \in Changes(m, d) THEN m.title ELSE @,
       !.last_edited_by = IF "content" \in Changes(m, d) /\ m.user # @
                          THEN m.user ELSE @]

\* _handle_update, lines 375-412: the row after the commit, which writes
\* the columns the handler changed on the loaded document d
Written(stored, d, m) ==
    [stored EXCEPT
       !.content = IF "content" \in Changes(m, d) THEN m.content ELSE @,
       !.title = IF "title" \in Changes(m, d) THEN m.title ELSE @,
       !.edit_version = IF Changes(m, d) # {}
                        THEN CurrentVersion(d) + 1 ELSE @,
       !.last_edited_by = IF "content" \in Changes(m, d) /\ m.user # @
                          THEN m.user ELSE @]

\* _handle_update, lines 349-451: permission, version test, commit and
\* refresh, DOCUMENT_UPDATED, VERSION_CREATE when asked for, response
DocFinish ==
    /\ docAgent.cur # NoOp
    /\ LET m == docAgent.cur
           d == docAgent.document
           doc2 == Written(database.doc, d, m)
       IN IF ~CanEdit(m.user)
          THEN /\ replies' = [replies EXCEPT ![m.id] =
                     [NoReply EXCEPT !.kind = "denied", !.request = m]]
               /\ UNCHANGED <<database, published, verAgent>>
          ELSE IF Conflict(m, d)
          THEN /\ replies' = [replies EXCEPT ![m.id] =
                     [NoReply EXCEPT !.kind = "conflict",
                                     !.expected = m.expected,
                                     !.current = CurrentVersion(d),
                                     !.content = d.content,
                                     !.title = d.title,
                                     !.editor = d.last_edited_by,
                                     !.request = m]]
               /\ UNCHANGED <<database, published, verAgent>>
          ELSE /\ database' = [database EXCEPT !.doc = doc2]
               /\ published' = published \cup {[type |-> "DOCUMENT_UPDATED",
                                             id |-> m.id]}
               /\ verAgent' =
                    IF m.create_version
                    THEN [verAgent EXCEPT !.queue = Append(@,
                            [NoOp EXCEPT !.id = m.id,
                                         !.type = "VERSION_CREATE",
                                         !.user = m.user,
                                         !.content = doc2.content,
                                         !.title = doc2.title,
                                         !.internal = TRUE])]
                    ELSE verAgent
               /\ replies' = [replies EXCEPT ![m.id] =
                     [NoReply EXCEPT !.kind = "updated",
                                     !.current = CurrentVersion(doc2),
                                     !.content = doc2.content,
                                     !.title = doc2.title,
                                     !.editor = doc2.last_edited_by,
                                     !.changes = Changes(m, d),
                                     !.request = m]]
    /\ docAgent' = [docAgent EXCEPT !.cur = NoOp, !.document = NoDocument]
    /\ UNCHANGED <<nUpdates, nVersionOps, view, docRest>>

\* the response to message m; the response to a message of the document
\* agent is routed to that agent, which has no handler for it
Respond(m, r) ==
    IF m.internal THEN replies ELSE [replies EXCEPT ![m.id] = r]

\* _process_messages: the loop of the version agent takes the next
\* message; _handle_revert, lines 369-376, loads the document
VerTake ==
    /\ verAgent.cur = NoOp
    /\ verAgent.queue # <<>>
    /\ verAgent' = [queue |-> Tail(verAgent.queue),
                    cur |-> Head(verAgent.queue),
                    pc |-> "taken",
                    document |-> IF Head(verAgent.queue).type
                                       = "VERSION_REVERT"
                                 THEN database.doc ELSE NoDocument]
    /\ UNCHANGED <<database, docAgent, replies, published, nUpdates,
                   nVersionOps, view, docRest>>

\* _handle_create_version, lines 160-238
CreateVersion ==
    /\ verAgent.cur.type = "VERSION_CREATE"
    /\ LET m == verAgent.cur
           V == database.versions
           content == IF m.content = NoContent THEN database.doc.content
                      ELSE m.content
           title == IF m.content = NoContent \/ m.title = NoTitle
                    THEN database.doc.title ELSE m.title
       IN IF V # <<>> /\ Latest(V).content = content
          THEN /\ replies' = Respond(m, [NoReply EXCEPT
                                           !.kind = "no_changes"])
               /\ UNCHANGED <<database, published>>
          ELSE /\ database' = [database EXCEPT !.versions = Append(@,
                     Version(NextNumber(V), content, title, m.user, 0))]
               /\ published' = published \cup {[type |-> "VERSION_CREATED",
                                             id |-> m.id]}
               /\ replies' = Respond(m, [NoReply EXCEPT
                                           !.kind = "created",
                                           !.number = NextNumber(V),
                                           !.content = content])
    /\ verAgent' = [verAgent EXCEPT !.cur = NoOp, !.pc = "idle"]
    /\ UNCHANGED <<docAgent, nUpdates, nVersionOps, view, docRest>>

\* _handle_revert, lines 384-430: permission, the target version, and the
\* first commit, which writes the columns changed on the loaded document
RevertDocument ==
    /\ verAgent.cur.type = "VERSION_REVERT"
    /\ verAgent.pc = "taken"
    /\ LET m == verAgent.cur
           d == verAgent.document
           V == database.versions
           found == { k \in 1..Len(V) : V[k].number = m.number }
       IN IF ~CanEdit(m.user) \/ found = {}
          THEN /\ replies' = Respond(m, [NoReply EXCEPT !.kind =
                     IF ~CanEdit(m.user) THEN "denied" ELSE "not_found"])
               /\ verAgent' = [verAgent EXCEPT !.cur = NoOp, !.pc = "idle",
                                               !.document = NoDocument]
               /\ UNCHANGED database
          ELSE LET target == V[CHOOSE k \in found : TRUE] IN
               /\ database' = [database EXCEPT
                     !.doc.content = IF target.content # d.content
                                     THEN target.content ELSE @,
                     !.doc.title = IF target.title # d.title
                                   THEN target.title ELSE @,
                     !.doc.last_edited_by = IF m.user # d.last_edited_by
                                            THEN m.user ELSE @]
               /\ verAgent' = [verAgent EXCEPT
                     !.pc = "committed",
                     !.document = [d EXCEPT !.content = target.content,
                                            !.title = target.title,
                                            !.last_edited_by = m.user]]
               /\ UNCHANGED replies
    /\ UNCHANGED <<docAgent, published, nUpdates, nVersionOps, view,
                   docRest>>

\* _handle_revert, lines 432-478: the version that records the revert,
\* VERSION_REVERTED and the response
RevertVersion ==
    /\ verAgent.cur.type = "VERSION_REVERT"
    /\ verAgent.pc = "committed"
    /\ LET m == verAgent.cur
           d == verAgent.document
           V == database.versions
       IN /\ database' = [database EXCEPT !.versions = Append(@,
                Version(NextNumber(V), d.content, d.title, m.user,
                        m.number))]
          /\ published' = published \cup {[type |-> "VERSION_REVERTED",
                                             id |-> m.id]}
          /\ replies' = Respond(m, [NoReply EXCEPT
                                      !.kind = "reverted",
                                      !.number = NextNumber(V),
                                      !.content = d.content])
    /\ verAgent' = [verAgent EXCEPT !.cur = NoOp, !.pc = "idle",
                                    !.document = NoDocument]
    /\ UNCHANGED <<docAgent, nUpdates, nVersionOps, view, docRest>>

\* Clients load the document and send updates, version requests and
\* reverts; the two agents work through their queues.
InitDocuments ==
    /\ agents = [i \in Ids |-> NoObj]
    /\ subscribers = [t \in Types |-> <<>>]
    /\ pending = {}
    /\ fut = [i \in 1..MaxMsgs |-> NoFut]
    /\ gathers = <<>>
    /\ queue = [o \in Objs |-> <<>>]
    /\ running = [o \in Objs |-> FALSE]
    /\ tasks = [o \in Objs |-> 0]
    /\ cur = [o \in Objs |-> <<>>]
    /\ injected = [o \in Objs |-> FALSE]
    /\ req = [i \in 1..MaxMsgs |-> NoFrame]
    /\ nextId = 1
    /\ hooks = [o \in Objs |-> 0]
    /\ InitExt

NextDocuments ==
    \/ \E x \in Users : Load(x)
    \/ \E x \in Users : \E m \in UpdatesOf(x) : SendUpdate(m)
    \/ SendUpdate(ViewerUpdate)
    \/ \E c \in {NoContent, "c1"} : SendCreate("u", c)
    \/ \E x \in {"v", Viewer}, n \in 1..(MaxVersionOps + 1) :
          SendRevert(x, n)
    \/ DocTake
    \/ DocFinish
    \/ VerTake
    \/ CreateVersion
    \/ RevertDocument
    \/ RevertVersion

SpecDocuments == InitDocuments /\ [][NextDocuments]_vars

Next ==
    \/ \E o \in Objs : Register(o)
    \/ \E i \in Ids : Unregister(i)
    \/ \E m \in EnvMsgs(nextId), bad \in SUBSET Flaky : Send(m, bad)
    \/ \E m \in Requests(nextId), bad \in SUBSET Flaky : RequestStart(m, bad)
    \/ \E bad \in SUBSET Flaky : GatherComplete(bad)
    \/ \E i \in 1..MaxMsgs, c \in BOOLEAN : Timeout(i, c)
    \/ \E i \in 1..MaxMsgs : RequestReturn(i)
    \/ \E o \in Objs : Start(o)
    \/ \E o \in Objs : Stop(o)
    \/ \E o \in Objs : Dequeue(o)
    \/ \E o \in Objs, out \in {"none", "ok", "raise"}, bad \in SUBSET Flaky :
          HandlerDone(o, out, bad)

Spec == Init /\ [][Next]_vars

\* The broker alone: agents are registered and unregistered, messages are
\* routed and requested, and no agent loop runs.
NextRoute ==
    \/ \E o \in Objs : Register(o)
    \/ \E i \in Ids : Unregister(i)
    \/ \E m \in EnvMsgs(nextId), bad \in SUBSET Flaky : Send(m, bad)
    \/ \E m \in Requests(nextId), bad \in SUBSET Flaky : RequestStart(m, bad)
    \/ \E bad \in SUBSET Flaky : GatherComplete(bad)
    \/ \E i \in 1..MaxMsgs, c \in BOOLEAN : Timeout(i, c)
    \/ \E i \in 1..MaxMsgs : RequestReturn(i)

SpecRoute == Init /\ [][NextRoute]_vars

\* The system after startup (main.py lifespan): the agents are registered
\* and started, and stay so.
InitStarted ==
    /\ agents = [i \in Ids |-> IF i = "a" THEN "o1" ELSE "o2"]
    /\ subscribers = [t \in Types |-> IF t = "PING" THEN <<"a", "b">> ELSE <<>>]
    /\ pending = {}
    /\ fut = [i \in 1..MaxMsgs |-> NoFut]
    /\ gathers = <<>>
    /\ queue = [o \in Objs |-> <<>>]
    /\ running = [o \in Objs |-> o \in {"o1", "o2"}]
    /\ tasks = [o \in Objs |-> IF o \in {"o1", "o2"} THEN 1 ELSE 0]
    /\ cur = [o \in Objs |-> <<>>]
    /\ injected = [o \in Objs |-> o \in {"o1", "o2"}]
    /\ req = [i \in 1..MaxMsgs |-> NoFrame]
    /\ nextId = 1
    /\ hooks = [o \in Objs |-> IF o \in {"o1", "o2"} THEN 1 ELSE 0]
    /\ InitExt

NextStarted ==
    \/ \E m \in EnvMsgs(nextId), bad \in SUBSET Flaky : Send(m, bad)
    \/ \E m \in Requests(nextId), bad \in SUBSET Flaky : RequestStart(m, bad)
    \/ \E bad \in SUBSET Flaky : GatherComplete(bad)
    \/ \E i \in 1..MaxMsgs, c \in BOOLEAN : Timeout(i, c)
    \/ \E i \in 1..MaxMsgs : RequestReturn(i)
    \/ \E o \in Objs : Dequeue(o)
    \/ \E o \in Objs, out \in {"none", "ok", "raise"}, bad \in SUBSET Flaky :
          HandlerDone(o, out, bad)

SpecStarted == InitStarted /\ [][NextStarted]_vars

\* The agents are registered (main.py lifespan, before start_all_agents)
\* and are started and stopped while messages are sent to them.
InitRegistered ==
    /\ agents = [i \in Ids |-> IF i = "a" THEN "o1" ELSE "o2"]
    /\ subscribers = [t \in Types |-> IF t = "PING" THEN <<"a", "b">> ELSE <<>>]
    /\ pending = {}
    /\ fut = [i \in 1..MaxMsgs |-> NoFut]
    /\ gathers = <<>>
    /\ queue = [o \in Objs |-> <<>>]
    /\ running = [o \in Objs |-> FALSE]
    /\ tasks = [o \in Objs |-> 0]
    /\ cur = [o \in Objs |-> <<>>]
    /\ injected = [o \in Objs |-> o \in {"o1", "o2"}]
    /\ req = [i \in 1..MaxMsgs |-> NoFrame]
    /\ nextId = 1
    /\ hooks = [o \in Objs |-> 0]
    /\ InitExt

NextAgent ==
    \/ \E o \in Objs : Start(o)
    \/ \E o \in Objs : Stop(o)
    \/ \E m \in EnvMsgs(nextId), bad \in SUBSET Flaky : Send(m, bad)
    \/ \E bad \in SUBSET Flaky : GatherComplete(bad)
    \/ \E o \in Objs : Dequeue(o)
    \/ \E o \in Objs, out \in {"none", "ok", "raise"}, bad \in SUBSET Flaky :
          HandlerDone(o, out, bad)

SpecAgent == InitRegistered /\ [][NextAgent]_vars

\* The agent registered under id a has no handler for PING (o3); the
\* agent registered under id b has one (o2) and none for replies.  Both
\* are started, and messages and requests are sent to them.
InitUnhandled ==
    /\ agents = [i \in Ids |-> IF i = "a" THEN "o3" ELSE "o2"]
    /\ subscribers = [t \in Types |-> IF t = "PING" THEN <<"b">> ELSE <<>>]
    /\ pending = {}
    /\ fut = [i \in 1..MaxMsgs |-> NoFut]
    /\ gathers = <<>>
    /\ queue = [o \in Objs |-> <<>>]
    /\ running = [o \in Objs |-> o \in {"o2", "o3"}]
    /\ tasks = [o \in Objs |-> IF o \in {"o2", "o3"} THEN 1 ELSE 0]
    /\ cur = [o \in Objs |-> <<>>]
    /\ injected = [o \in Objs |-> o \in {"o2", "o3"}]
    /\ req = [i \in 1..MaxMsgs |-> NoFrame]
    /\ nextId = 1
    /\ hooks = [o \in Objs |-> IF o \in {"o2", "o3"} THEN 1 ELSE 0]
    /\ InitExt

SpecUnhandled == InitUnhandled /\ [][NextStarted]_vars

\* The event bus alone: callbacks are subscribed and unsubscribed while
\* events are published.
NextBus ==
    \/ \E t \in EvTypes, c \in Cbs : Subscribe(t, c) /\ UNCHANGED handles
    \/ \E d \in Docs, c \in Cbs :
          SubscribeToDocument(d, c) /\ UNCHANGED handles
    \/ \E c \in Cbs : SubscribeAll(c) /\ UNCHANGED handles
    \/ \E t \in EvTypes, c \in Cbs : Unsubscribe(t, c) /\ UNCHANGED handles
    \/ \E d \in Docs, c \in Cbs :
          UnsubscribeDocument(d, c) /\ UNCHANGED handles
    \/ \E c \in Cbs : UnsubscribeAll(c) /\ UNCHANGED handles
    \/ \E e \in Events(nPub + 1) :
          \E order \in Orders(IF e.doc # NoDoc THEN docSubs[e.doc] ELSE {}) :
              PublishStart(e, order)
    \/ \E raises \in BOOLEAN : Invoke(raises)

SpecBus == Init /\ [][NextBus]_vars

\* A caller subscribes callbacks, keeps the closures and calls them.
NextHandles ==
    \/ \E t \in EvTypes, c \in Cbs : SubscribeKeep(t, c)
    \/ \E d \in Docs, c \in Cbs : SubscribeToDocumentKeep(d, c)
    \/ \E c \in Cbs : SubscribeAllKeep(c)
    \/ \E k \in 1..MaxHandles : CallHandle(k)

SpecHandles == Init /\ [][NextHandles]_vars

\* Callbacks subscribe to all events, events are published and the
\* history is read.
NextHistory ==
    \/ \E c \in Cbs : SubscribeAll(c) /\ UNCHANGED handles
    \/ \E e \in Events(nPub + 1) : PublishStart(e, <<>>)
    \/ \E raises \in BOOLEAN : Invoke(raises)
    \/ \E t \in EvTypes \cup {NoType}, d \in Docs \cup {NoDoc},
          limit \in Limits : GetHistoryCall(t, d, limit)

SpecHistory == Init /\ [][NextHistory]_vars

\* create_response alone, called on any message
InitResponse ==
    /\ agents = [i \in Ids |-> NoObj]
    /\ subscribers = [t \in Types |-> <<>>]
    /\ pending = {}
    /\ fut = [i \in 1..MaxMsgs |-> NoFut]
    /\ gathers = <<>>
    /\ queue = [o \in Objs |-> <<>>]
    /\ running = [o \in Objs |-> FALSE]
    /\ tasks = [o \in Objs |-> 0]
    /\ cur = [o \in Objs |-> <<>>]
    /\ injected = [o \in Objs |-> FALSE]
    /\ req = [i \in 1..MaxMsgs |-> NoFrame]
    /\ nextId = 1
    /\ hooks = [o \in Objs |-> 0]
    /\ sent = "none"
    /\ orig \in UNION {EnvMsgs(i) : i \in 1..MaxMsgs}
    /\ resp = NoMsg
    /\ typeSubs = [t \in EvTypes |-> <<>>]
    /\ docSubs = [d \in Docs |-> {}]
    /\ globalSubs = <<>>
    /\ history = <<>>
    /\ pub = NoPub
    /\ nPub = 0
    /\ returned = <<>>
    /\ handles = <<>>
    /\ warned = {}
    /\ InitDocs
    /\ InitWs

NextResponse ==
    \E payload \in Payloads, success \in BOOLEAN :
        CreateResponseCall(payload, success)

SpecResponse == InitResponse /\ [][NextResponse]_vars

\* The registered agents and an agent object that was never registered
\* send messages themselves.
NextSend ==
    \/ \E o \in Objs : Start(o)
    \/ \E o \in Objs, m \in EnvMsgs(nextId), bad \in SUBSET Flaky :
          SendMessage(o, m, bad)
    \/ \E bad \in SUBSET Flaky : GatherComplete(bad)
    \/ \E o \in Objs : Dequeue(o)
    \/ \E o \in Objs, out \in {"none", "ok", "raise"}, bad \in SUBSET Flaky :
          HandlerDone(o, out, bad)

SpecSend == InitRegistered /\ [][NextSend]_vars

\* ---------------------------------------------------------------- claims
ReqIds == 1..MaxMsgs

Ended(i) == req[i].pc = "done"

\* C1: a request() call during which a RESPONSE or ERROR correlated to
\* its message was routed before its timeout fired returns exactly that
\* reply (the first such reply), and its id is not a key of the pending
\* map once it has returned.
C1_CorrelatedReplyReturned ==
    \A i \in ReqIds :
        (Ended(i) /\ req[i].seen # NoMsg) =>
            /\ req[i].result = req[i].seen
            /\ i \notin pending

C1_Witness ==
    \E i \in ReqIds :
        /\ Ended(i)
        /\ req[i].seen # NoMsg
        /\ req[i].result.corr = i
        /\ req[i].result.type = "ERROR"

\* C2: a request() call for which no correlated reply was routed before
\* it returned gives back "no response" (it does not raise: it reaches a
\* return statement), its id is not a key of the pending map afterwards,
\* and a later request() whose reply is routed in time returns that reply.
C2_TimeoutReturnsNone ==
    \A i \in ReqIds :
        /\ (Ended(i) /\ req[i].seen = NoMsg /\ req[i].late = NoMsg) =>
              /\ req[i].result = NoMsg
              /\ req[i].how \in {"timeout", "error"}
              /\ i \notin pending
        /\ \A j \in ReqIds :
              (/\ i < j
               /\ Ended(i) /\ req[i].how = "timeout"
               /\ Ended(j) /\ req[j].seen # NoMsg) =>
                  /\ req[j].how = "response"
                  /\ req[j].result.corr = j

C2_Witness ==
    \E i, j \in ReqIds :
        /\ i < j
        /\ Ended(i) /\ req[i].how = "timeout" /\ req[i].result = NoMsg
        /\ Ended(j) /\ req[j].how = "response" /\ req[j].result.corr = j
        /\ pending = {}

\* C3: with two request() calls outstanding at once, a future is only
\* ever resolved with a reply correlated to its own request, whatever the
\* order of the replies, so each caller returns a reply correlated to its
\* own message or none, and the keys of the pending map are exactly the
\* requests whose future is still unresolved.
C3_OwnReplyOnly ==
    \A i \in ReqIds :
        /\ fut[i].state = "done" =>
              (IsReply(fut[i].result) /\ fut[i].result.corr = i)
        /\ (Ended(i) /\ req[i].result # NoMsg) =>
              (IsReply(req[i].result) /\ req[i].result.corr = i)
        /\ (req[i].pc \in {"routing", "waiting"} /\ fut[i].state = "pending")
              => i \in pending

\* the second request's reply arrived while the first is still waiting
C3_Witness ==
    /\ req[1].pc = "waiting" /\ fut[1].state = "pending"
    /\ req[2].pc = "waiting" /\ fut[2].state = "done"
    /\ fut[2].result.corr = 2

\* C4: every key of the pending map is the id of a request() call that
\* has not ended, and the id of a call that has ended (by a reply, by its
\* timeout, or because route_message raised) is not a key.
C4_NoLeakedEntries ==
    /\ \A i \in pending : req[i].pc \in {"routing", "waiting", "timedout"}
    /\ \A i \in ReqIds : Ended(i) => i \notin pending

\* both calls have ended, one of them because route_message raised
C4_Witness ==
    /\ \A i \in ReqIds : Ended(i)
    /\ \E i \in ReqIds : req[i].how = "error"
    /\ \E i \in ReqIds : req[i].how # "error"

Fails == SUBSET Flaky

\* the step is a call of route_message from outside request()
SendStep == nextId' = nextId + 1 /\ req'[nextId].pc = "none"

\* the reply m is correlated to a request() call that ended by its timeout
LateReply(m) ==
    /\ IsReply(m)
    /\ m.corr \in ReqIds
    /\ req[m.corr].pc = "done"
    /\ req[m.corr].how = "timeout"

\* the registered agents a broadcast of m goes to
Others(m) == {agents[i] : i \in {j \in Ids : agents[j] # NoObj /\ j # m.sender}}

\* m put at the back of the queues of the agents in T, and on no other
Delivered(T, m) ==
    \A o \in Objs :
        queue'[o] = IF o \in T THEN Append(queue[o], m) ELSE queue[o]

Broadcast(m, caller) ==
    /\ queue' = queue
    /\ gathers' = IF Others(m) = {} THEN gathers
                  ELSE Append(gathers, [msg |-> m, targets |-> Others(m),
                                        caller |-> caller])

\* the late reply m reaches nothing
LateDropped(m) ==
    /\ fut' = fut
    /\ queue' = queue
    /\ gathers' = gathers

\* the late reply m resolves nothing and is routed by the remaining rules
LateRerouted(m, bad) ==
    /\ fut' = fut
    /\ pending' = pending
    /\ IF m.recipient = "broadcast" THEN Broadcast(m, 0)
       ELSE IF Registered(m.recipient)
       THEN /\ Delivered({agents[m.recipient]} \ bad, m)
            /\ gathers' = gathers
       ELSE subscribers[m.type] = <<>> =>
                (queue' = queue /\ gathers' = gathers)

\* C5 as claimed: a RESPONSE or ERROR routed after its request timed out
\* resolves no future and reaches no agent queue, whatever its recipient
\* (the reply is routed from outside or is the reply of an agent's
\* handler).
C5_LateReplyDropped ==
    [][/\ SendStep =>
             \A m \in Replies(nextId), bad \in Fails :
                 (LateReply(m) /\ Send(m, bad)) => LateDropped(m)
       /\ \A o \in Objs :
             (cur[o] # <<>> /\ cur'[o] # cur[o] /\ injected[o]) =>
                 \A out \in {"ok", "raise"}, bad \in Fails :
                     (/\ LateReply(Reply(Head(cur[o]), out))
                      /\ HandlerDone(o, out, bad)) =>
                         LateDropped(Reply(Head(cur[o]), out))]_vars

\* C5 as amended: a RESPONSE or ERROR routed after its request timed out
\* resolves no future and changes no pending entry; it is then routed by
\* the remaining rules: broadcast if its recipient is "broadcast", put on
\* the queue of the registered agent its recipient names, and dropped
\* only when its recipient is neither and no agent is indexed for its type.
C5_LateReplyRerouted ==
    [][/\ SendStep =>
             \A m \in Replies(nextId), bad \in Fails :
                 (LateReply(m) /\ Send(m, bad)) => LateRerouted(m, bad)
       /\ \A o \in Objs :
             (cur[o] # <<>> /\ cur'[o] # cur[o] /\ injected[o]) =>
                 \A out \in {"ok", "raise"}, bad \in Fails :
                     (/\ LateReply(Reply(Head(cur[o]), out))
                      /\ HandlerDone(o, out, bad)) =>
                         LateRerouted(Reply(Head(cur[o]), out), bad)]_vars

\* a reply to a request that timed out sits in the queue of an agent
C5_Witness ==
    \E o \in Objs :
        \E k \in 1..Len(queue[o]) :
            /\ IsReply(queue[o][k])
            /\ queue[o][k].corr \in ReqIds
            /\ req[queue[o][k].corr].how = "timeout"

\* C6: route_message applies the first rule that matches, in the order
\* (1) reply correlated to a pending request: only that future is resolved
\* and its entry removed; (2) recipient "broadcast"; (3) recipient is a
\* registered agent: only that agent's queue receives the message;
\* (4) the type has a capability-index entry: only the agent registered
\* under the first id of the list can receive it; (5) nothing changes.
C6_StrictRuleOrder ==
    [][SendStep =>
          \A m \in EnvMsgs(nextId), bad \in Fails :
              Send(m, bad) =>
                  IF IsReply(m) /\ m.corr \in pending
                  THEN /\ pending' = pending \ {m.corr}
                       /\ fut' = IF fut[m.corr].state = "pending"
                                 THEN [fut EXCEPT ![m.corr] =
                                          [state |-> "done", result |-> m]]
                                 ELSE fut
                       /\ queue' = queue
                       /\ gathers' = gathers
                  ELSE /\ pending' = pending
                       /\ fut' = fut
                       /\ IF m.recipient = "broadcast" THEN Broadcast(m, 0)
                          ELSE IF Registered(m.recipient)
                          THEN /\ Delivered({agents[m.recipient]} \ bad, m)
                               /\ gathers' = gathers
                          ELSE IF subscribers[m.type] # <<>>
                          THEN /\ \E T \in SUBSET {agents[Head(subscribers[m.type])]} :
                                     Delivered(T, m)
                               /\ gathers' = gathers
                          ELSE /\ queue' = queue
                               /\ gathers' = gathers]_vars

\* a reply addressed to "broadcast" or to a registered agent has resolved
\* a request and is in no queue, and a message addressed to agent b is in
\* b's queue alone although a is first in the capability index of its type
C6_Witness ==
    /\ \E i \in ReqIds :
          /\ fut[i].state = "done"
          /\ fut[i].result.recipient \in {"broadcast", "a"}
          /\ Registered("a")
          /\ \A o \in Objs : \A k \in 1..Len(queue[o]) :
                 queue[o][k] # fut[i].result
    /\ \E k \in 1..Len(queue["o2"]) :
          /\ queue["o2"][k].recipient = "b"
          /\ Len(subscribers[queue["o2"][k].type]) > 0
          /\ Head(subscribers[queue["o2"][k].type]) = "a"
          /\ Registered("a")
          /\ \A j \in 1..Len(queue[agents["a"]]) :
                 queue[agents["a"]][j] # queue["o2"][k]

\* C7: routing a message to "broadcast" hands it to every agent registered
\* at that moment except the one registered under msg.sender (N-1 of N
\* when the sender is registered) and puts it on no queue directly; when
\* the deliveries run, each of those agents gets it once at the back of
\* its queue, except the ones whose delivery fails, and no other agent
\* gets it.
C7_BroadcastFanOut ==
    [][/\ nextId' # nextId =>
             \A m \in EnvMsgs(nextId), bad \in Fails :
                 (/\ m.recipient = "broadcast"
                  /\ ~(IsReply(m) /\ m.corr \in pending)
                  /\ (Send(m, bad) \/ RequestStart(m, bad))) =>
                      /\ Broadcast(m, IF SendStep THEN 0 ELSE m.id)
                      /\ Registered(m.sender) =>
                            /\ agents[m.sender] \notin Others(m)
                            /\ Cardinality(Others(m)) =
                                 Cardinality({i \in Ids : Registered(i)}) - 1
       /\ (gathers # <<>> /\ gathers' = Tail(gathers)) =>
             \A bad \in Fails :
                 GatherComplete(bad) =>
                     Delivered(Head(gathers).targets \ bad,
                               Head(gathers).msg)]_vars

\* a broadcast sent by the registered agent a is in b's queue and in no
\* queue of an agent object with id a
C7_Witness ==
    \E k \in 1..Len(queue["o2"]) :
        /\ queue["o2"][k].recipient = "broadcast"
        /\ queue["o2"][k].sender = "a"
        /\ Registered("a")
        /\ \A o \in {"o1", "o3"} : \A j \in 1..Len(queue[o]) :
               queue[o][j] # queue["o2"][k]

\* the registered agent ids whose agent declares type t
Capable(t) == {i \in Ids : Registered(i) /\ t \in Capabilities(agents[i])}

\* the agent registered earliest for t among those of Capable(t): the
\* capability list is in registration order
FirstCapable(t) ==
    LET L == subscribers[t]
        k == CHOOSE n \in 1..Len(L) :
                 /\ L[n] \in Capable(t)
                 /\ \A j \in 1..(n - 1) : L[j] \notin Capable(t)
    IN agents[L[k]]

\* C8: a message whose recipient is neither "broadcast" nor a registered
\* agent and whose type has a registered capable agent is put on the queue
\* of exactly one agent, the one registered earliest for the type among
\* the agents currently registered (no delivery failing).
C8_FirstCapableAgent ==
    [][SendStep =>
          \A m \in Requests(nextId) :
              (/\ m.recipient # "broadcast"
               /\ ~Registered(m.recipient)
               /\ Capable(m.type) # {}
               /\ Send(m, {})) =>
                  Delivered({FirstCapable(m.type)}, m)]_vars

\* no routing rule matches m
NoRule(m) ==
    /\ ~(IsReply(m) /\ m.corr \in pending)
    /\ m.recipient # "broadcast"
    /\ ~Registered(m.recipient)
    /\ \A k \in 1..Len(subscribers[m.type]) :
           ~Registered(subscribers[m.type][k])

\* C9: when no rule matches, route_message returns normally (a request()
\* that called it goes on to wait for its reply) and the registry, the
\* capability index, the pending map, the futures and every queue are
\* left as they were.
C9_UnroutableDropped ==
    [][nextId' # nextId =>
          \A bad \in Fails :
              /\ \A m \in EnvMsgs(nextId) :
                    (NoRule(m) /\ Send(m, bad)) =>
                        UNCHANGED <<agents, subscribers, pending, fut, queue,
                                    gathers, req>>
              /\ \A m \in Requests(nextId) :
                    (NoRule(m) /\ RequestStart(m, bad)) =>
                        /\ UNCHANGED <<agents, subscribers, queue, gathers>>
                        /\ pending' = pending \cup {m.id}
                        /\ req'[m.id].pc = "waiting"]_vars

\* the first message was passed to request() before any agent was ever
\* registered: nothing is queued and the call waits for its reply
C9_Witness ==
    /\ req[1].pc = "waiting"
    /\ \A o \in Objs : ~injected[o] /\ queue[o] = <<>>
    /\ gathers = <<>>
    /\ pending = {1}

ErrorFor(m) ==
    [id |-> 0, type |-> "ERROR", sender |-> m.recipient,
     recipient |-> m.sender, corr |-> m.id, payload |-> "error"]

\* C11: when the handler of a running agent raises on m, the agent stays
\* running with its loop alive, and an ERROR with correlation_id = m.id,
\* sender = m.recipient and recipient = m.sender is routed by the broker:
\* it resolves the pending request made with m, and otherwise goes to the
\* queue of the registered agent m.sender names; a request() waiting on m
\* then returns that ERROR.
C11_HandlerErrorCorrelated ==
    [][/\ \A o \in Objs :
             (cur[o] # <<>> /\ cur'[o] # cur[o] /\ injected[o]) =>
                 \A bad \in Fails :
                     HandlerDone(o, "raise", bad) =>
                         LET m == Head(cur[o])
                             E == ErrorFor(m)
                         IN /\ running'[o]
                            /\ tasks'[o] = 1
                            /\ IF m.id \in pending
                               THEN /\ pending' = pending \ {m.id}
                                    /\ queue' = queue
                                    /\ fut[m.id].state = "pending" =>
                                          fut'[m.id] = [state |-> "done",
                                                        result |-> E]
                               ELSE /\ fut' = fut
                                    /\ Registered(E.recipient) =>
                                          Delivered({agents[E.recipient]} \ bad, E)
       /\ \A i \in ReqIds :
             (/\ req[i].pc \in {"routing", "waiting"}
              /\ fut[i].state = "done"
              /\ fut[i].result.type = "ERROR"
              /\ fut[i].result.payload = "error"
              /\ fut[i].result.corr = i
              /\ req'[i].pc = "done") =>
                 /\ req'[i].result = fut[i].result
                 /\ req'[i].how = "response"]_vars

\* a request() has returned the ERROR an agent's loop built for its message
C11_Witness ==
    \E i \in ReqIds :
        /\ req[i].pc = "done"
        /\ req[i].how = "response"
        /\ req[i].result.type = "ERROR"
        /\ req[i].result.payload = "error"
        /\ req[i].result.corr = i
        /\ req[i].result.recipient = "api"

\* C12: stop() called while a handler is in progress on m does not drop
\* m: the invocation stays in progress, to run to completion, or an ERROR
\* correlated to m is sent; stop() only ends the wait for the next message.
C12_StopKeepsDequeued ==
    [][\A o \in Objs :
          (running[o] /\ cur[o] # <<>> /\ Stop(o)) =>
              \/ cur'[o] = cur[o]
              \/ \E t \in Objs :
                    queue'[t] = Append(queue[t], ErrorFor(Head(cur[o])))]_vars

\* C13: at most one processing loop per agent, and exactly one while the
\* agent is running; on_start and on_stop alternate, on_start first;
\* start() on a running agent and stop() on an agent that is not running
\* change nothing.
C13_LifecycleIdempotent ==
    [][\A o \in Objs :
          /\ tasks'[o] = IF running'[o] THEN 1 ELSE 0
          /\ hooks'[o] = IF running'[o] THEN 1 ELSE 0
          /\ (running[o] /\ Start(o)) => UNCHANGED vars
          /\ (~running[o] /\ Stop(o)) => UNCHANGED vars]_vars

\* agent o1 runs one loop with a handler in progress while agent o2 is
\* not running, has nothing in progress and keeps a message in its queue
C13_Witness ==
    /\ running["o1"]
    /\ tasks["o1"] = 1
    /\ hooks["o1"] = 1
    /\ ~running["o2"]
    /\ cur["o1"] # <<>>
    /\ cur["o2"] = <<>>
    /\ queue["o2"] # <<>>

\* C14: send_message on an agent that has no broker injected ends with an
\* error the caller observes.
C14_SendWithoutBrokerFails ==
    [][nextId' # nextId =>
          \A o \in Objs :
              ~injected[o] =>
                  \A m \in EnvMsgs(nextId), bad \in Fails :
                      SendMessage(o, m, bad) => sent' = "raised"]_vars

\* C15: after any register_agent and unregister_agent calls, an agent id
\* occurs at most once in the capability list of every message type.
C15_IndexedOnce ==
    \A t \in Types :
        \A j, k \in 1..Len(subscribers[t]) :
            j # k => subscribers[t][j] # subscribers[t][k]

\* id a was registered twice, by the object o1 and then by o3, and is in
\* the list of PING once, before b
C15_Witness ==
    /\ agents["a"] = "o3"
    /\ subscribers["PING"] = <<"a", "b">>

\* C16: every agent id in a capability list is a key of the registry, and
\* unregister_agent(i) removes the record of i and every list entry i.
C16_IndexPointsToRegistry ==
    [][/\ \A t \in Types :
             \A k \in 1..Len(subscribers'[t]) :
                 agents'[subscribers'[t][k]] # NoObj
       /\ \A i \in Ids :
             (Registered(i) /\ Unregister(i)) =>
                 /\ agents'[i] = NoObj
                 /\ \A t \in Types :
                        \A k \in 1..Len(subscribers'[t]) :
                            subscribers'[t][k] # i]_vars

\* C17: every message on an agent's queue has a type the agent declared
\* among its capabilities.
C17_OnlyDeclaredTypes ==
    \A o \in Objs :
        \A k \in 1..Len(queue[o]) :
            queue[o][k].type \in Capabilities(o)

\* C18: m.create_response(p, success) returns a message other than m with
\* sender = m.recipient, recipient = m.sender, correlation_id = m.id,
\* payload = p and type RESPONSE if success else ERROR, and m is as before.
C18_CreateResponseFields ==
    [][\A p \in Payloads, success \in BOOLEAN :
          CreateResponseCall(p, success) =>
              /\ resp'.sender = orig.recipient
              /\ resp'.recipient = orig.sender
              /\ resp'.corr = orig.id
              /\ resp'.payload = p
              /\ resp'.type = IF success THEN "RESPONSE" ELSE "ERROR"
              /\ resp' # orig
              /\ orig' = orig]_vars

\* an ERROR built for a reply the api addressed to agent b
C18_Witness ==
    /\ orig.type = "RESPONSE"
    /\ orig.sender = "api"
    /\ orig.recipient = "b"
    /\ resp.type = "ERROR"
    /\ resp.sender = "b"
    /\ resp.recipient = "api"
    /\ resp.corr = orig.id

\* number of occurrences of c in the list q
Count(q, c) == Cardinality({k \in 1..Len(q) : q[k] = c})

\* number of times publish(e) owes a call to c: once per subscription of c
\* to the type of e, to the document of e and to all events
Owed(e, c) ==
    Count(typeSubs[e.type], c)
    + (IF e.doc # NoDoc /\ c \in docSubs[e.doc] THEN 1 ELSE 0)
    + Count(globalSubs, c)

\* the callbacks of the invocations inv
Names(inv) == [k \in 1..Len(inv) |-> inv[k].cb]

\* C19: publish(e) first appends e to the history and is then to invoke
\* the callbacks subscribed to the type of e, to its document when it has
\* one, and to all events; every invocation, raising or not, leaves the
\* callbacks still to be invoked, the subscriber tables and the history as
\* they were, and publish returns normally once all were invoked.
C19_PublishIsolatesFailures ==
    [][/\ nPub' # nPub =>
             /\ history' # <<>>
             /\ history'[Len(history')] = pub'.event
             /\ pub'.invoked = <<>>
             /\ \A c \in Cbs : Count(pub'.todo, c) = Owed(pub'.event, c)
             /\ pub'.pc = IF pub'.todo = <<>> THEN "returned" ELSE "running"
       /\ (pub.pc = "running" /\ pub' # pub) =>
             /\ pub'.event = pub.event
             /\ Len(pub'.invoked) = Len(pub.invoked) + 1
             /\ Names(pub'.invoked) \o pub'.todo
                  = Names(pub.invoked) \o pub.todo
             /\ pub'.pc = IF pub'.todo = <<>> THEN "returned" ELSE "running"
             /\ UNCHANGED <<typeSubs, docSubs, globalSubs, history>>]_vars

\* a publish about document d1 has returned after three callbacks were
\* invoked, subscribed by type, by document and to all events, the first
\* of which raised
C19_Witness ==
    /\ pub.pc = "returned"
    /\ pub.event.doc = "d1"
    /\ Len(pub.invoked) = 3
    /\ pub.invoked[1].raised
    /\ ~pub.invoked[3].raised
    /\ typeSubs["t1"] # <<>>
    /\ docSubs["d1"] # {}
    /\ globalSubs # <<>>

\* C20: the history never holds more than MaxHistory events, and after n
\* publishes it is the last min(n, MaxHistory) events published, in
\* publish order, the latest one last.
C20_HistoryBounded ==
    /\ Len(history) <= MaxHistory
    /\ Len(history) = IF nPub < MaxHistory THEN nPub ELSE MaxHistory
    /\ \A k \in 1..Len(history) :
           /\ history[k].n = nPub - Len(history) + k
           /\ history[k] \in Events(history[k].n)
    /\ nPub > 0 => history[Len(history)] = pub.event

\* one more event than the history holds was published: the first is gone
C20_Witness ==
    /\ nPub = MaxHistory + 1
    /\ Len(history) = MaxHistory
    /\ history[1].n = 2
    /\ history[MaxHistory].n = MaxHistory + 1

\* the events of the history that pass the filters t and d, oldest first
Matching(t, d) ==
    SelectSeq(history, LAMBDA e : /\ (t # NoType => e.type = t)
                                  /\ (d # NoDoc => e.doc = d))

\* C21: get_history(t, d, limit) returns the last limit events of the
\* history that match the filters (all of them when fewer match), in
\* publish order, never more than limit events, limit = 0 included, and
\* leaves the history as it was.
C21_HistorySlice ==
    [][returned' # returned =>
          \A t \in EvTypes \cup {NoType}, d \in Docs \cup {NoDoc},
             limit \in Limits :
              GetHistoryCall(t, d, limit) =>
                  LET M == Matching(t, d)
                      n == IF limit < Len(M) THEN limit ELSE Len(M)
                  IN /\ Len(returned') <= limit
                     /\ returned' = SubSeq(M, Len(M) - n + 1, Len(M))
                     /\ history' = history]_vars

\* number of closures kept for (kind, key, c) that were never called
Live(kind, key, c) ==
    Cardinality({ k \in 1..Len(handles) :
                    /\ handles[k].kind = kind /\ handles[k].key = key
                    /\ handles[k].cb = c /\ ~handles[k].called })

\* C22: every subscribe call makes a subscription of its own, revoked by
\* its own closure and by no other, however often a closure is called: a
\* callback with a closure not yet called for a type, a document or all
\* events is still in that table, so it is invoked on a matching publish.
C22_SubscriptionsIndependent ==
    \A c \in Cbs :
        /\ \A t \in EvTypes :
              Live("type", t, c) > 0 => Count(typeSubs[t], c) > 0
        /\ \A d \in Docs : Live("document", d, c) > 0 => c \in docSubs[d]
        /\ Live("all", NoType, c) > 0 => Count(globalSubs, c) > 0

\* the tasks gather created for task t in this step
Spawned(t) ==
    { i \in Pool : /\ wtasks[i].stack = <<>>
                   /\ wtasks'[i].stack # <<>>
                   /\ wtasks'[i].parent = t }

\* the tasks created for task t in this step to send a payload of type ty
\* about document d
Carrying(t, ty, d) ==
    { i \in Spawned(t) : /\ wtasks'[i].stack[1].msg.type = ty
                         /\ wtasks'[i].stack[1].msg.doc = d }

\* the tasks created for task t to send a payload of the type and the
\* document of msg are one per user of X, and each is _send_to_user(x, msg)
\* about to start
FanOut(t, X, msg) ==
    LET new == Carrying(t, msg.type, msg.doc) IN
    /\ { wtasks'[i].stack[1].user : i \in new } = X
    /\ Cardinality(new) = Cardinality(X)
    /\ \A i \in new :
          wtasks'[i].stack = <<SendToUser(wtasks'[i].stack[1].user, msg)>>

\* task i is a task created by gather that has not run yet
Unsent(i) ==
    /\ Len(wtasks[i].stack) = 1
    /\ wtasks[i].stack[1].f = "send"
    /\ wtasks[i].stack[1].pc = "start"

\* A task created by gather runs: the payload is written to the socket the
\* target is connected with when that socket is open, and to no other
\* socket; a target that is not connected, or whose socket is closed or
\* raises, gets nothing.
SendDelivers ==
    \A i \in Pool :
        Unsent(i) /\ wtasks'[i] # wtasks[i] =>
            LET fr == wtasks[i].stack[1]
                k == connections[fr.user]
            IN outbox' = IF k # NoConn /\ client[k] = "open"
                         THEN [outbox EXCEPT ![k] = @ \cup {fr.msg}]
                         ELSE outbox

\* the types of the payloads that are about a user's action in a room
RoomTypes == {"user_joined", "user_left", "cursor_update", "text_change"}

\* no socket is written a payload about an action of its own user
NoEcho ==
    \A k \in Conns : \A m \in outbox'[k] \ outbox[k] :
        m.type \in RoomTypes => m.user # UserOf(k)

\* the payload is on the pending join of the endpoint of k, to be sent
\* once gather has returned
PendingInfo(k, msg) ==
    LET s == wtasks'[EndpointTask(k)].stack IN
    /\ Len(s) = 3
    /\ s[2] = Frame("join", "info", UserOf(k), msg.doc, <<>>, msg, NoUser)

\* C23: when a connected user U joins a room, every other member of the
\* room is sent a user_joined payload about U, no such payload is sent to
\* U, and U is sent a room_info payload listing the members of the room at
\* the time of the join, U included: at once when U is alone in the room,
\* and once the notifications have been gathered otherwise.  A payload is
\* written to the socket of a connected user whose peer is there.
C23_JoinNotifies ==
    [][/\ nMsgs' # nMsgs =>
             \A k \in Conns, d \in Rooms :
                 /\ connections[UserOf(k)] = k
                 /\ Receive(k, [type |-> "join_document", doc |-> d])
                 => LET U == UserOf(k)
                        r2 == AddMember(document_rooms, d, U)
                        others == r2.members[d] \ {U}
                    IN /\ U \in RoomInfo(d, r2).users
                       /\ FanOut(EndpointTask(k), others,
                                 UserJoined(U, d, r2))
                       /\ IF others = {}
                          THEN client[k] = "open" =>
                                   RoomInfo(d, r2) \in outbox'[k]
                          ELSE PendingInfo(k, RoomInfo(d, r2))
       /\ \A k \in Conns :
             LET t == EndpointTask(k)
                 s == wtasks[t].stack
             IN /\ Len(s) = 3
                /\ s[2].f = "join"
                /\ wtasks[t].wait = 0
                /\ wtasks'[t] # wtasks[t]
                /\ client[k] = "open"
                => s[2].msg \in outbox'[k]
       /\ SendDelivers
       /\ \A k \in Conns : \A m \in outbox'[k] \ outbox[k] :
             m.type = "user_joined" => m.user # UserOf(k)]_vars

\* U has joined a room, and V after U: V has the room_info and U the
\* user_joined notification
C23_Witness ==
    /\ RoomInfo("d1", [keys |-> <<"d1">>,
                       members |-> [d \in Rooms |-> IF d = "d1"
                                                     THEN {"u", "v"}
                                                     ELSE {}]])
           \in outbox["k2"]
    /\ \E m \in outbox["k1"] : m.type = "user_joined" /\ m.user = "v"
    /\ \A m \in outbox["k2"] : m.type # "user_joined"

\* C24: a user_joined notification lists the user who joined and does not
\* list the user it is sent to; the room_info sent to the user who joined
\* lists that user.
C24_JoinedListsOnlyJoiner ==
    \A k \in Conns : \A m \in outbox[k] :
        /\ m.type = "user_joined" =>
               m.user \in m.users /\ UserOf(k) \notin m.users
        /\ m.type = "room_info" => UserOf(k) \in m.users

\* C24: a user_joined notification is about another user than the one it
\* is sent to and its active_users list holds both, with every other
\* member of the room at the time of the join; the room_info sent to the
\* user who joined holds that user.  When V joins a room U is a member of,
\* the notification for U and the room_info for V both list U and V.
C24_JoinedListsRoom ==
    [][/\ \A k \in Conns : \A m \in outbox'[k] :
             /\ m.type = "user_joined" =>
                    m.user # UserOf(k) /\ {m.user, UserOf(k)} \subseteq m.users
             /\ m.type = "room_info" => UserOf(k) \in m.users
       /\ nMsgs' # nMsgs =>
             \A k \in Conns, d \in Rooms :
                 /\ connections[UserOf(k)] = k
                 /\ document_rooms.members[d] \ {UserOf(k)} # {}
                 /\ Receive(k, [type |-> "join_document", doc |-> d])
                 => LET V == UserOf(k)
                        all == document_rooms.members[d] \cup {V}
                        t == EndpointTask(k)
                    IN /\ Spawned(t) # {}
                       /\ \A i \in Spawned(t) :
                             /\ wtasks'[i].stack[1].msg.type = "user_joined"
                             /\ wtasks'[i].stack[1].msg.user = V
                             /\ wtasks'[i].stack[1].msg.users = all
                             /\ wtasks'[i].stack[1].user \in all \ {V}
                       /\ wtasks'[t].stack[2].msg.type = "room_info"
                       /\ wtasks'[t].stack[2].msg.users = all]_vars

\* U joined d1, then V: the notification U has lists U and V, and so does
\* the room_info V has
C24_Witness ==
    /\ Payload("user_joined", "v", "d1", {"u", "v"}) \in outbox["k1"]
    /\ Payload("room_info", NoUser, "d1", {"u", "v"}) \in outbox["k2"]
    /\ Payload("room_info", NoUser, "d1", {"u"}) \in outbox["k1"]

\* the endpoint of connection k has ended: its final disconnect returned
\* or raised
Ended_k(k) == EndpointAt(k, "done") \/ EndpointAt(k, "failed")

\* the rooms user x is a member of
RoomsOf(x) == { d \in Rooms : x \in document_rooms.members[d] }

\* the rooms that are keys of the room index and have no member
EmptyRooms ==
    { d \in Rooms : HasRoom(document_rooms, d)
                    /\ document_rooms.members[d] = {} }

\* C25: once the disconnect(U) called by the endpoint of U has ended,
\* whatever ran at its suspension points, U is a member of no room, U has
\* no connection record and no room of the index is empty; it does not
\* abort with U still registered.
C25_DisconnectCompletes ==
    \A k \in Conns :
        Ended_k(k) =>
            /\ RoomsOf(UserOf(k)) = {}
            /\ connections[UserOf(k)] = NoConn
            /\ EmptyRooms = {}

\* C26: every member of every room has an entry in the connection map.
C26_MembersConnected ==
    \A d \in Rooms : \A x \in document_rooms.members[d] :
        connections[x] # NoConn

\* C27: the room index holds no room without members, in every state and
\* so once every join, leave and disconnect has completed: the operation
\* that removes the last member of a room deletes the room before it
\* suspends or returns.
C27_NoEmptyRooms == EmptyRooms = {}

\* both users joined d1 and are gone, and the room is deleted
C27_Witness ==
    /\ \A k \in Conns : Ended_k(k) /\ \E m \in outbox[k] :
                                         m.type = "room_info" /\ m.doc = "d1"
    /\ document_rooms.keys = <<>>

\* the members of room d the message m of user x is broadcast to
Audience(x, m) ==
    LET M == document_rooms.members[m.doc] IN
    CASE m.type = "join_document" -> M \ {x}
      [] m.type = "leave_document" -> M \ {x}
      [] m.type = "cursor_update" -> M \ {x}
      [] m.type = "text_change" -> M \ {x}

\* the type of the payload the message m is broadcast as
Notification(m) ==
    CASE m.type = "join_document" -> "user_joined"
      [] m.type = "leave_document" -> "user_left"
      [] m.type = "cursor_update" -> "cursor_update"
      [] m.type = "text_change" -> "text_change"

\* C28: handle_message turns a join_document, leave_document,
\* cursor_update or text_change message of user U about room d into one
\* notification about U for every other member of d and none for U; each
\* is written to the socket of its target when the target is connected
\* and the peer is there, and no socket is ever written a notification
\* about its own user.
C28_BroadcastExcludesSender ==
    [][/\ nMsgs' # nMsgs =>
             \A k \in Conns, m \in ClientMsgs :
                 m.type # "ping" /\ Receive(k, m) =>
                     LET new == Carrying(EndpointTask(k), Notification(m),
                                         m.doc)
                     IN /\ { wtasks'[i].stack[1].user : i \in new }
                               = Audience(UserOf(k), m)
                        /\ Cardinality(new)
                               = Cardinality(Audience(UserOf(k), m))
                        /\ \A i \in new :
                              /\ Unsent(i)'
                              /\ wtasks'[i].stack[1].msg.user = UserOf(k)
       /\ SendDelivers
       /\ NoEcho]_vars

\* V has the cursor_update of U about a room both are in, U has no
\* cursor_update
C28_Witness ==
    /\ Payload("cursor_update", "u", "d1", {}) \in outbox["k2"]
    /\ \A m \in outbox["k1"] : m.type # "cursor_update"
    /\ document_rooms.members["d1"] = {"u", "v"}

\* C29: an event with a document_id is handed to one _send_to_user task
\* for every member of that room except event.user_id and to nothing
\* else; an event with a user_id only is written to the socket of that
\* user, when connected and the peer is there, and to no other; an event
\* with neither is written to no socket.  Each task writes to the socket
\* of its target and to no other.
C29_EventBridge ==
    [][/\ nBridge' # nBridge =>
             \A e \in BridgeEvents :
                 HandleEvent(e) =>
                     LET t == FreeTask(WS)
                         k == connections[e.user]
                     IN IF e.doc # NoDoc
                        THEN /\ FanOut(t, document_rooms.members[e.doc]
                                              \ {e.user}, e)
                             /\ outbox' = outbox
                        ELSE IF e.user # NoUser
                        THEN /\ Carrying(t, "event", NoDoc) = {}
                             /\ outbox' =
                                  IF k # NoConn /\ client[k] = "open"
                                  THEN [outbox EXCEPT ![k] = @ \cup {e}]
                                  ELSE outbox
                        ELSE /\ Spawned(t) = {}
                             /\ outbox' = outbox
       /\ SendDelivers
       /\ \A k \in Conns : \A m \in outbox'[k] \ outbox[k] :
             m.type = "event" =>
                 /\ m.user # UserOf(k) \/ m.doc = NoDoc
                 /\ m.doc = NoDoc => m.user = UserOf(k)]_vars

\* an event about d1 published by U has reached V, a member of d1, and
\* not U
C29_Witness ==
    /\ Payload("event", "u", "d1", {}) \in outbox["k2"]
    /\ \A m \in outbox["k1"] : m.type # "event"
    /\ document_rooms.members["d1"] = {"u", "v"}
    /\ \A i \in Pool : wtasks[i] = NoTask

\* task i is a task created by gather whose send_json is about to raise
Failing(i) ==
    /\ Unsent(i)
    /\ connections[wtasks[i].stack[1].user] # NoConn
    /\ client[connections[wtasks[i].stack[1].user]] = "closing"

\* C30: when send_json raises in one task of a fan-out, the other tasks
\* of the fan-out are as they were and still deliver the payload when
\* they run; the coroutine awaiting the fan-out is as it was and has one
\* task less to wait for once the failing task is done; no exception
\* reaches it.
C30_FanOutIsolatesFailures ==
    [][/\ \A i \in Pool :
             Failing(i) /\ wtasks'[i] # wtasks[i] =>
                 LET p == wtasks[i].parent IN
                 /\ \A j \in Pool \ {i} : Unsent(j) => wtasks'[j] = wtasks[j]
                 /\ wtasks'[p].stack = wtasks[p].stack
                 /\ wtasks'[p].wait = IF wtasks'[i] = NoTask
                                      THEN wtasks[p].wait - 1
                                      ELSE wtasks[p].wait
       /\ \A t \in TaskIds : ~wtasks'[t].exc
       /\ SendDelivers]_vars

\* an event about d1 was handed to U and V, both members; the send to U
\* raised and U was disconnected, V has the event, and _handle_event has
\* returned
C30_Witness ==
    /\ Payload("event", NoUser, "d1", {}) \in outbox["k2"]
    /\ Payload("event", NoUser, "d1", {}) \notin outbox["k1"]
    /\ Payload("room_info", NoUser, "d1", {"u"}) \in outbox["k1"]
    /\ client["k1"] = "closing"
    /\ connections["u"] = NoConn
    /\ \A i \in Pool : wtasks[i] = NoTask

\* C34: a correlated reply routed after the timeout of its request() has
\* fired and before request() has resumed resolves the future when the
\* timeout has not cancelled it yet and is otherwise ignored; a future
\* that is done or cancelled is never written again; request() then
\* returns that reply or "no response" through a return statement, and
\* its id is not a key of the pending map afterwards.
C34_ReplyInTimeoutWindow ==
    [][\A i \in ReqIds :
          /\ fut[i].state \in {"done", "cancelled"} => fut'[i] = fut[i]
          /\ (req[i].pc = "timedout" /\ req[i].late # NoMsg
              /\ req'[i].pc = "done") =>
                /\ i \notin pending'
                /\ \/ /\ req'[i].how = "response"
                      /\ req'[i].result = req[i].late
                      /\ fut[i].state = "done"
                   \/ /\ req'[i].how = "timeout"
                      /\ req'[i].result = NoMsg
                      /\ fut[i].state = "cancelled"]_vars

\* a call has returned the reply that was routed after its timeout fired
C34_Witness ==
    \E i \in ReqIds :
        /\ Ended(i)
        /\ req[i].late # NoMsg
        /\ req[i].how = "response"
        /\ req[i].result = req[i].late
        /\ i \notin pending
\* C40: when the loop of an agent takes a message of a type it has no
\* handler for, the message is dropped: the loop keeps running and is
\* free for the next message of its queue, no handler is started and
\* nothing is routed (no reply is sent, no future resolved).  A request()
\* whose message was dropped this way, and to which nobody else replied,
\* returns "no response" through the timeout and its id is no key of the
\* pending map afterwards.
C40_UnhandledDropped ==
    [][/\ \A o \in Objs :
              (/\ queue[o] # <<>>
               /\ NextMessage(queue[o]).type \notin Handlers(o)
               /\ Dequeue(o)) =>
                  /\ running'[o] /\ tasks' = tasks /\ cur' = cur
                  /\ queue' = [queue EXCEPT ![o] = Tail(@)]
                  /\ pending' = pending /\ fut' = fut
                  /\ gathers' = gathers /\ req' = req
       /\ \A i \in ReqIds :
              (/\ i \in warned
               /\ req[i].pc # "done" /\ req'[i].pc = "done"
               /\ req[i].seen = NoMsg /\ req[i].late = NoMsg) =>
                  /\ req'[i].result = NoMsg
                  /\ req'[i].how = "timeout"
                  /\ i \notin pending']_vars

C40_Witness ==
    \E i \in ReqIds :
        /\ i \in warned /\ Ended(i)
        /\ req[i].seen = NoMsg /\ req[i].late = NoMsg
        /\ req[i].result = NoMsg /\ req[i].how = "timeout"
        /\ i \notin pending
        /\ running["o3"] /\ cur["o3"] = <<>>

\* the callbacks a publish() call has invoked and has yet to invoke
Plan(p) == [k \in 1..Len(p.invoked) |-> p.invoked[k].cb] \o p.todo

\* callback c is subscribed to the event of the running publish
Subscribed(c) ==
    \/ \E k \in 1..Len(typeSubs[pub.event.type]) :
           typeSubs[pub.event.type][k] = c
    \/ pub.event.doc # NoDoc /\ c \in docSubs[pub.event.doc]
    \/ \E k \in 1..Len(globalSubs) : globalSubs[k] = c

\* C39: the callbacks invoked for an event are those subscribed when its
\* publish() call started: while the call runs, subscribing and
\* unsubscribing (by a callback or by anyone else) changes neither the
\* callbacks it has yet to invoke nor their order.
C39_CallbackListFixed ==
    [][/\ (pub.pc = "running" /\ pub'.event = pub.event) =>
              Plan(pub') = Plan(pub)
       /\ (pub'.event # pub.event) =>
              /\ pub'.invoked = <<>>
              /\ \A c \in Cbs :
                     Subscribed(c)' <=>
                        \E k \in 1..Len(pub'.todo) : pub'.todo[k] = c]_vars

C39_Witness ==
    /\ pub.pc = "running"
    /\ pub.invoked # <<>>
    /\ ~Subscribed(Head(pub.todo))
    /\ \E c \in Cbs :
           /\ Subscribed(c)
           /\ \A k \in 1..Len(Plan(pub)) : Plan(pub)[k] # c

\* C38: a cursor_update or text_change message of user U about room d is
\* broadcast only when U is a member of d: when U is not, handle_message
\* creates no task to send it to anyone.
C38_BroadcastByMembersOnly ==
    [][nMsgs' # nMsgs =>
          \A k \in Conns, m \in ClientMsgs :
              (/\ m.type \in {"cursor_update", "text_change"}
               /\ UserOf(k) \notin document_rooms.members[m.doc]
               /\ Receive(k, m)) =>
                  Carrying(EndpointTask(k), m.type, m.doc) = {}]_vars

\* connection k was turned away by websocket_route
Rejected(k) == EndpointAt(k, "rejected")

\* C31: an upgrade request whose token fails verification is closed
\* without connect() being called: the step leaves the connection map, the
\* rooms and every outbox as they are and starts no task, the endpoint is
\* called with no user_id, and afterwards the connection is never a value
\* of the connection map, is never written to and stays closed.
C31_InvalidTokenNeverConnects ==
    [][/\ \A k \in Conns, tok \in Tokens :
              (/\ EndpointAt(k, "route")
               /\ VerifyToken(tok) = NoClaims
               /\ WebsocketRoute(k, tok)) =>
                  /\ connections' = connections
                  /\ document_rooms' = document_rooms
                  /\ outbox' = outbox
                  /\ \A t \in Pool : wtasks'[t] = wtasks[t]
                  /\ Rejected(k)'
       /\ \A k \in Conns :
              Rejected(k) =>
                  /\ UserOf(k) = NoUser
                  /\ client[k] = "closed"
                  /\ outbox[k] = {}
                  /\ \A x \in Users : connections[x] # k
                  /\ Rejected(k)']_vars

\* one connection was turned away while the user its token names is
\* connected through the other and has joined a room
C31_Witness ==
    /\ Rejected("k2")
    /\ connections = [x \in Users |-> IF x = "u" THEN "k1" ELSE NoConn]
    /\ RoomsOf("u") # {}

\* C37: when the endpoint of a connection of user U ends (its final
\* disconnect(U) has returned) while a later connection of U is the one
\* registered and is open, that later connection is still the value of
\* the connection map for U and U is still in the rooms it was in.
C37_SecondConnectionKept ==
    [][\A k \in Conns : \A k2 \in Conns \ {k} :
          (/\ UserOf(k) \in Users
           /\ UserOf(k2) = UserOf(k)
           /\ connections[UserOf(k)] = k2
           /\ client[k2] = "open"
           /\ EndpointAt(k2, "recv")
           /\ ~Ended_k(k)
           /\ Ended_k(k)') =>
              /\ connections'[UserOf(k)] = k2
              /\ RoomsOf(UserOf(k))' = RoomsOf(UserOf(k))]_vars

\* the document agent ends the handling of a message in this step
DocFinished == docAgent.cur # NoOp /\ docAgent'.cur = NoOp

\* C32: a DOC_UPDATE whose expected_version differs from the edit_version
\* of the document leaves the rows of the database as they are, publishes
\* nothing and sends nothing to the version agent; the sender, when it may
\* edit, gets a conflict response with the expected version, the current
\* version, and the content, title and last editor of the document as the
\* handler loaded it.
C32_ConflictRejected ==
    [][DocFinished =>
          LET m == docAgent.cur
              d == docAgent.document
          IN (/\ m.expected # NoVersion
              /\ m.expected # CurrentVersion(database.doc)) =>
                 /\ database' = database
                 /\ published' = published
                 /\ verAgent' = verAgent
                 /\ CanEdit(m.user) =>
                       replies'[m.id] =
                         [NoReply EXCEPT !.kind = "conflict",
                                         !.expected = m.expected,
                                         !.current =
                                            CurrentVersion(database.doc),
                                         !.content = d.content,
                                         !.title = d.title,
                                         !.editor = d.last_edited_by,
                                         !.request = m]]_vars

C32_Witness ==
    \E i \in 1..MaxUpdates :
        /\ replies[i].kind = "conflict"
        /\ replies[i].expected = 1 /\ replies[i].current = 2
        /\ replies[i].content = "c1" /\ replies[i].editor = "u"
        /\ database.doc.content = "c1"
        /\ CurrentVersion(database.doc) = 2

\* the versions of the document in the order of their creation
Versions == database.versions

\* C33: the versions of a document are numbered 1, 2, 3, ... in the order
\* of their creation, so the numbers are unique and each new one is the
\* maximum plus one; no step removes or changes a version; the version a
\* revert adds has the content of the version reverted to.
C33_VersionNumbers ==
    [][/\ Len(Versions') \in {Len(Versions), Len(Versions) + 1}
       /\ SubSeq(Versions', 1, Len(Versions)) = Versions
       /\ \A k \in 1..Len(Versions') : Versions'[k].number = k
       /\ (verAgent.cur.type = "VERSION_REVERT"
           /\ Len(Versions') = Len(Versions) + 1) =>
              \E k \in 1..Len(Versions) :
                  /\ Versions[k].number = verAgent.cur.number
                  /\ Versions'[Len(Versions')].content
                        = Versions[k].content]_vars

\* a third version that reverts to the first, whose content differs from
\* that of the second
C33_Witness ==
    /\ Len(Versions) = 3
    /\ Versions[3].reverted = 1
    /\ Versions[3].content = Versions[1].content
    /\ Versions[2].content # Versions[1].content

\* the updates i and j carry the same expected_version and different
\* contents, are from users who may edit, and both have been answered
SamePair(i, j) ==
    LET A == replies[i]
        B == replies[j]
    IN /\ A.kind # "none" /\ B.kind # "none"
       /\ CanEdit(A.request.user) /\ CanEdit(B.request.user)
       /\ A.request.expected # NoVersion
       /\ A.request.expected = B.request.expected
       /\ A.request.content # NoContent /\ B.request.content # NoContent
       /\ A.request.content # B.request.content

\* the update i changed the document
Applied(i) == replies[i].kind = "updated" /\ replies[i].changes # {}

\* the update i was accepted and changed nothing: the edit_version it
\* answers with is the one it expected
Idle(i) ==
    /\ replies[i].kind = "updated" /\ replies[i].changes = {}
    /\ replies[i].current = replies[i].request.expected

\* C35 as stated: of two DOC_UPDATE messages with the same
\* expected_version and different contents one is rejected as a conflict.
C35_OneRejected ==
    \A i \in 1..MaxUpdates : \A j \in 1..MaxUpdates \ {i} :
        SamePair(i, j) =>
            replies[i].kind = "conflict" \/ replies[j].kind = "conflict"

\* C35: of two DOC_UPDATE messages with the same expected_version and
\* different contents at most one changes the document, and one of them is
\* rejected as a conflict unless one of them was accepted without changing
\* anything (its content is the stored one), which leaves edit_version as
\* it was.
C35_AtMostOneApplied ==
    \A i \in 1..MaxUpdates : \A j \in 1..MaxUpdates \ {i} :
        SamePair(i, j) =>
            /\ ~(Applied(i) /\ Applied(j))
            /\ \/ replies[i].kind = "conflict"
               \/ replies[j].kind = "conflict"
               \/ Idle(i)
               \/ Idle(j)

C35_Witness ==
    \E i \in 1..MaxUpdates : \E j \in 1..MaxUpdates \ {i} :
        /\ SamePair(i, j)
        /\ Applied(i)
        /\ replies[j].kind = "conflict"
        /\ replies[j].content = replies[i].request.content

\* C36: every step that changes the stored content or title of the
\* document increments its edit_version, and a DOC_UPDATE that carries an
\* expected_version changes the content only when the stored content is
\* the one its sender had loaded.
C36_EveryChangeBumps ==
    [][/\ (\/ database'.doc.content # database.doc.content
           \/ database'.doc.title # database.doc.title) =>
              CurrentVersion(database'.doc) > CurrentVersion(database.doc)
       /\ (/\ DocFinished
           /\ docAgent.cur.expected # NoVersion
           /\ database'.doc.content # database.doc.content) =>
              docAgent.cur.base = database.doc.content]_vars

====
